---- MODULE Spec2Model ----
(***************************************************************************)
(* Turn Metrics Engine of SkillIssue.ai                                    *)
(* (src/src/agents/metric_calculator/{metrics,utils,agent}.py).            *)
(*                                                                         *)
(* Texts are sequences of lexemes: each lexeme is a short phrase whose     *)
(* regex classification by the pattern library of utils.py is fixed, and   *)
(* the lexemes are chosen so that writing them one after the other         *)
(* (separated by a space, "." attached to what precedes it) creates no     *)
(* match across a lexeme border.  Scores are exact rationals, rounded to   *)
(* 4 decimals the way round(x, 4) does, and kept as integers counting      *)
(* ten-thousandths (10000 is 1.0, -10000 is the sentinel -1.0).            *)
(***************************************************************************)
EXTENDS Integers, Sequences, FiniteSets, TLC

VARIABLES
    pc,                \* "idle" | "done" | "compared" | "repeated": position of the caller
    op,                \* name of the function that was called last
    question,          \* the question argument (an opaque text)
    answer,            \* the answer argument, a text
    chat_history,      \* the chat_history argument: None or a sequence of records
    behavioral_phase,  \* flag argument
    run_llm_metrics,   \* flag argument
    provider,          \* behaviour of the embedding provider during the call
    judge,             \* behaviour of the LLM judge: outcome of its successive calls
    result,            \* what the call produced: [exc, val, embeds, judges]
    other,             \* a second call made for comparison: [answer, chat_history, result], or NoCall
    last_n_passed,     \* the last_n argument of a direct call of _history_text
    _LLM_AVAILABLE,    \* the availability flag of tests/test2_metrics.py: "None" | "True" | "False"
    environ,           \* whether os.environ holds a non-empty GOOGLE_API_KEY
    threads,           \* per thread: where it is in _check_llm, and what its last call returned
    session_store,     \* the chat_history the session store holds for the session
    redis,             \* the value Redis holds under the key of the session
    chat,              \* the chat list of the user interface
    returned,          \* what the last call of submit_answer returned
    graph,             \* the run of the orchestrator graph: [at, state, steps]
    topic_call         \* the arguments of the last call of get_independent_topic

\* the process-wide state around the availability check
process == <<_LLM_AVAILABLE, environ, threads>>

\* the state of the interview session
interview == <<redis, chat, returned, graph>>
session == <<session_store, interview, topic_call>>

vars == <<pc, op, question, answer, chat_history, behavioral_phase,
          run_llm_metrics, provider, judge, result, other, last_n_passed, process,
          session>>

-----------------------------------------------------------------------------
(* Numbers                                                                 *)

\* round(x, 4): scores are integers counting 1/Unit
Unit == 10000

Abs(x) == IF x < 0 THEN -x ELSE x

RECURSIVE GCD(_, _)
GCD(a, b) == IF b = 0 THEN a ELSE GCD(b, a % b)

\* the rational n/d (d > 0) in lowest terms
Rat(n, d) ==
    LET g == GCD(Abs(n), d)
    IN  IF g = 0 THEN <<0, 1>> ELSE <<n \div g, d \div g>>

Int2Rat(n) == <<n, 1>>
RAdd(a, b) == Rat(a[1] * b[2] + b[1] * a[2], a[2] * b[2])
RSub(a, b) == Rat(a[1] * b[2] - b[1] * a[2], a[2] * b[2])
RMul(a, b) == Rat(a[1] * b[1], a[2] * b[2])
RDiv(a, b) == IF b[1] > 0 THEN Rat(a[1] * b[2], a[2] * b[1])
                          ELSE Rat(-(a[1] * b[2]), a[2] * (-b[1]))
RLeq(a, b) == a[1] * b[2] <= b[1] * a[2]
RLess(a, b) == a[1] * b[2] < b[1] * a[2]
RMin(a, b) == IF RLeq(a, b) THEN a ELSE b
RMax(a, b) == IF RLeq(a, b) THEN b ELSE a

\* a score kept in 1/Unit as a rational
Score2Rat(s) == Rat(s, Unit)

\* round(x, 4) on the exact value: nearest multiple of 1/Unit, ties to even
\* (the whole part is split off first to keep the products small).  On an
\* exact tie the code's result depends on the binary representation of the
\* float and may be the other neighbour.
Round4(x) ==
    LET whole == x[1] \div x[2]
        n == (x[1] % x[2]) * Unit
        d == x[2]
        q == (2 * n + d) \div (2 * d)
    IN  whole * Unit + (IF (2 * n + d) % (2 * d) = 0 /\ q % 2 = 1 THEN q - 1 ELSE q)

-----------------------------------------------------------------------------
(* Text feature extractors: the pattern library of utils.py               *)

Lexemes == {"team", "maybe", "I think", "I'm not certain", "was built",
            "I built", "because", "for example", "3x", "40%", "7",
            "python", "kafka", "did some stuff", "project", "task",
            "result", "I reduced", ".", " "}

\* a lexeme of white space only
Whitespace == {" "}

\* re.findall(r'\b\w+\b', lexeme): number of word tokens of a lexeme
WordTokens(l) ==
    CASE l = "." -> 0
      [] l \in Whitespace -> 0
      [] l \in {"I think", "was built", "I built", "for example", "I reduced"} -> 2
      [] l = "did some stuff" -> 3
      [] l = "I'm not certain" -> 4
      [] OTHER -> 1

\* the lexemes each pattern matches (each of them exactly once)
_HEDGE_RE == {"maybe", "I think", "I'm not certain"}
_CAUSAL_RE == {"because"}
_EXAMPLE_RE == {"for example"}
\* "40%" is no match: the pattern ends in \b, and there is no word border
\* after "%" when a space, a "." or the end of the text follows
_QUANTITY_RE == {"3x"}
_SHALLOW_RE == {"did some stuff"}
_TECH_RE == {"python", "kafka"}
_ACTION_RE == {"I built", "I reduced"}
_PASSIVE_RE == {"was built"}
_STAR_RE == [situation |-> {"project"},
             task      |-> {"task"},
             action    |-> _ACTION_RE,
             result    |-> {"result", "I reduced"}]
\* r"\b\d+(?:\.\d+)?(?:%|x|ms|gb|mb|k|m)?\b" of specificity_score
NUMBER_RE == {"3x", "40%", "7"}
\* the characters re.split(r'[.!?]+', ...) splits on
SENTENCE_END == {"."}

\* len(pattern.findall(text))
FindAll(pattern, text) == {i \in DOMAIN text : text[i] \in pattern}
Count(pattern, text) == Cardinality(FindAll(pattern, text))

\* len(re.findall(r'\b\w+\b', text))
RECURSIVE WordCount(_)
WordCount(text) ==
    IF text = <<>> THEN 0 ELSE WordTokens(Head(text)) + WordCount(Tail(text))

\* len(re.split(r'[.!?]+', text)): one fragment more than there are runs of
\* sentence ends, the empty fragments included
SplitFragments(text) ==
    1 + Cardinality({i \in DOMAIN text :
            /\ text[i] \in SENTENCE_END
            /\ (i = 1 \/ text[i - 1] \notin SENTENCE_END)})

\* [s.strip() for s in re.split(r'[.!?]+', text) if s.strip()]: the
\* fragments that are not white space only, each given by the positions of
\* its first and last lexeme
Sentences(text) ==
    LET starts == {i \in DOMAIN text :
                     /\ text[i] \notin SENTENCE_END
                     /\ (i = 1 \/ text[i - 1] \in SENTENCE_END)}
        EndOf(i) == CHOOSE j \in i..Len(text) :
                     /\ \A k \in i..j : text[k] \notin SENTENCE_END
                     /\ (j = Len(text) \/ text[j + 1] \in SENTENCE_END)
    IN  {f \in {<<i, EndOf(i)>> : i \in starts} :
            \E k \in f[1]..f[2] : text[k] \notin Whitespace}

\* prior.strip() is empty
IsBlank(text) == \A i \in DOMAIN text : text[i] \in Whitespace

-----------------------------------------------------------------------------
(* History aggregator                                                      *)

\* chat_history is None, or a list of records; a record is a function from
\* field names to values and may lack any field
None == [isNone |-> TRUE, turns |-> <<>>]
List(turns) == [isNone |-> FALSE, turns |-> turns]

\* variant: `if chat_history is not None:`
Truthy_IsNotNone(history) == ~history.isNone

\* `if chat_history:` / `if not history:`
Truthy(history) == ~history.isNone /\ history.turns # <<>>

\* variant: a record of the role "system" is taken as well
HasRole_OrSystem(t, role) ==
    "role" \in DOMAIN t /\ (t.role = role \/ t.role = "system")

\* t.get("role") == role
HasRole(t, role) == "role" \in DOMAIN t /\ t.role = role

\* " ".join(contents): one space between two contents, none at the ends
RECURSIVE Join(_)
Join(contents) ==
    IF contents = <<>> THEN <<>>
    ELSE IF Len(contents) = 1 THEN Head(contents)
    ELSE Head(contents) \o <<" ">> \o Join(Tail(contents))

\* t["content"] for t in history if t.get("role") == role
RECURSIVE Selected(_, _)
Selected(turns, role) ==
    IF turns = <<>> THEN <<>>
    ELSE IF HasRole(Head(turns), role)
         THEN <<Head(turns).content>> \o Selected(Tail(turns), role)
         ELSE Selected(Tail(turns), role)

JoinContents(turns, role) == Join(Selected(turns, role))

\* " ".join(t["content"] for t in history if t.get("role") == role):
\* t["content"] raises KeyError on a selected record without that field
ContentsOf(history, role) ==
    IF ~Truthy(history) THEN [raised |-> FALSE, text |-> <<>>]
    ELSE IF \E i \in DOMAIN history.turns :
                /\ HasRole(history.turns[i], role)
                /\ "content" \notin DOMAIN history.turns[i]
         THEN [raised |-> TRUE, text |-> <<>>]
         ELSE [raised |-> FALSE, text |-> JoinContents(history.turns, role)]

_prior_answers(history) == ContentsOf(history, "assistant")

_prior_questions(history) == ContentsOf(history, "user")

\* history[-last_n:]: the last last_n records; all of them when last_n is 0
\* (-0 is 0) or not smaller than the length
Window(turns, last_n) ==
    IF last_n = 0 \/ last_n >= Len(turns) THEN turns
    ELSE SubSeq(turns, Len(turns) - last_n + 1, Len(turns))

\* "\n".join(f"{t['role'].upper()}: {t['content']}" for t in window): one
\* line per record of the window; KeyError on a record without role or content
_history_text(history, last_n) ==
    IF ~Truthy(history) THEN [raised |-> FALSE, lines |-> <<>>]
    ELSE LET window == Window(history.turns, last_n)
         IN  IF \E i \in DOMAIN window :
                    {"role", "content"} \ DOMAIN window[i] # {}
             THEN [raised |-> TRUE, lines |-> <<>>]
             ELSE [raised |-> FALSE,
                   lines |-> [i \in DOMAIN window |->
                                <<window[i].role, window[i].content>>]]

-----------------------------------------------------------------------------
(* LLM critic adapter                                                      *)

\* A judge response is a sequence of tokens [t, k, v]:
\*   lbrace, rbrace   "{" and "}"
\*   num_member       "k": v   with a number v (in 1/Unit), written in plain
\*                    decimal notation with a leading "-" when negative
\*   null_member      "k": null
\*   flags_member     "flags": [...] with v flag descriptions
\*   number           a standalone number v >= 0 in the commentary
\*   word             a word of commentary without digits
Tok(t, k, v) == [t |-> t, k |-> k, v |-> v]
LBrace == Tok("lbrace", "", 0)
RBrace == Tok("rbrace", "", 0)
Member(k, v) == Tok("num_member", k, v)
NullMember(k) == Tok("null_member", k, 0)
FlagsMember(n) == Tok("flags_member", "flags", n)
Number(v) == Tok("number", "", v)
Word == Tok("word", "", 0)
MemberTokens == {"num_member", "null_member", "flags_member"}

\* the list a flags member carries
FlagList(n) == [i \in 1..n |-> "flag"]

\* re.search(r'\{.*\}', raw, re.S): from the first "{" to the last "}" of the
\* text, greedily; <<0, 0>> when there is no match
SearchBraces(raw) ==
    LET opens == {i \in DOMAIN raw : raw[i].t = "lbrace"}
        first == CHOOSE i \in opens : \A j \in opens : i <= j
        closes == {i \in DOMAIN raw : raw[i].t = "rbrace" /\ i > first}
        last == CHOOSE i \in closes : \A j \in closes : j <= i
    IN  IF opens = {} THEN <<0, 0>>
        ELSE IF closes = {} THEN <<0, 0>>
        ELSE <<first, last>>

\* json.loads(match.group()): [ok, obj]; the text between the braces must be
\* a list of members, and a key given twice keeps its last value
JsonLoads(raw) ==
    LET m == SearchBraces(raw)
        inside == (m[1] + 1)..(m[2] - 1)
        ok == m # <<0, 0>> /\ \A i \in inside : raw[i].t \in MemberTokens
        keys == {raw[i].k : i \in inside}
        LastOf(k) == CHOOSE i \in inside :
                        raw[i].k = k /\ \A j \in inside : raw[j].k = k => j <= i
    IN  IF ok THEN [ok |-> TRUE, obj |-> [k \in keys |-> raw[LastOf(k)]]]
        ELSE [ok |-> FALSE, obj |-> <<>>]

\* round(v / 10 if v > 1 else v, 4)
Normalize(v) == IF v > Unit THEN Round4(Rat(v, 10 * Unit)) ELSE Round4(Rat(v, Unit))

\* re.findall(r"\b(\d+(?:\.\d+)?)\b", raw): the numbers of the text in text
\* order, those of the members included; the pattern takes no sign
ScanNumbers(raw) ==
    SelectSeq(raw, LAMBDA tok : tok.t \in {"num_member", "number"})

RECURSIVE FirstInRange(_)
FirstInRange(toks) ==
    IF toks = <<>> THEN -Unit
    ELSE LET v == Abs(Head(toks).v)
         IN  IF 0 <= v /\ v <= 10 * Unit THEN Normalize(v)
             ELSE FirstInRange(Tail(toks))

_parse_llm_json(raw, field) ==
    LET j == JsonLoads(raw)
    IN  IF j.ok /\ field \in DOMAIN j.obj /\ j.obj[field].t = "num_member"
        THEN Normalize(j.obj[field].v)
        ELSE FirstInRange(ScanNumbers(raw))

\* an outcome of llm.invoke: it raises, or it answers with a text
Raises == [raises |-> TRUE, content |-> <<>>]
Answers(raw) == [raises |-> FALSE, content |-> raw]

\* _llm_critique: the raw text, or None after any exception of the call
_llm_critique(outcome) ==
    IF outcome.raises THEN [isNone |-> TRUE, raw |-> <<>>]
    ELSE [isNone |-> FALSE, raw |-> outcome.content]

-----------------------------------------------------------------------------
(* Embedding provider and the course of one call                           *)

\* The state of a call in progress: the exception that ended it ("none"
\* while it runs), and how many times it has called the embedding provider
\* and the judge so far.
Start == [exc |-> "none", embeds |-> 0, judges |-> 0]

\* `raise` of exception e when cond holds, unless the call has ended already
RaiseIf(st, cond, e) ==
    IF st.exc = "none" /\ cond THEN [st EXCEPT !.exc = e] ELSE st

\* variant: the exception of the provider is caught and a vector returned
embed_Swallowed(st, p) ==
    IF st.exc # "none" THEN st ELSE [st EXCEPT !.embeds = @ + 1]

\* embed(text): one call of the provider; the provider p raises on its
\* call number p.failAt (never when p.failAt is 0), and the exception is
\* not caught
embed(st, p) ==
    IF st.exc # "none" THEN st
    ELSE IF st.embeds + 1 = p.failAt
         THEN [st EXCEPT !.exc = "EmbeddingError", !.embeds = @ + 1]
         ELSE [st EXCEPT !.embeds = @ + 1]

\* cosine(a, b) of the embeddings of two texts, as the provider p gives it:
\* a value of [-Unit, Unit] for each pair of texts the metrics compare
\* ("question_answer", "answer_context", "answer_prior", and the sentence
\* number i against the question)
cosine(p, pair) == Score2Rat(p.cos[pair])
cosine_sentence(p, i) == Score2Rat(p.sent[i])

Zero == Int2Rat(0)
One == Int2Rat(1)

-----------------------------------------------------------------------------
(* Metric functions                                                        *)

\* variant: `return round(score, 4)`, without the clamp to [0, 1]
question_answer_relevance_Unclamped(q, a, history, p, st) ==
    LET s1 == embed(embed(st, p), p)
        s2 == RaiseIf(s1, _prior_answers(history).raised, "KeyError")
        s3 == RaiseIf(s2, _prior_questions(history).raised, "KeyError")
        score == IF Truthy(history)
                 THEN RAdd(RMul(Rat(75, 100), cosine(p, "question_answer")),
                           RMul(Rat(25, 100), cosine(p, "answer_context")))
                 ELSE cosine(p, "question_answer")
    IN  [st |-> IF Truthy(history) THEN embed(s3, p) ELSE s1,
         val |-> Round4(score)]

question_answer_relevance(q, a, history, p, st) ==
    LET s1 == embed(embed(st, p), p)
        direct == cosine(p, "question_answer")
        s2 == RaiseIf(s1, _prior_answers(history).raised, "KeyError")
        s3 == RaiseIf(s2, _prior_questions(history).raised, "KeyError")
        s4 == embed(s3, p)
        bridge == cosine(p, "answer_context")
        score == IF Truthy(history)
                 THEN RAdd(RMul(Rat(75, 100), direct), RMul(Rat(25, 100), bridge))
                 ELSE direct
    IN  [st |-> IF Truthy(history) THEN s4 ELSE s1,
         val |-> Round4(RMin(RMax(score, Zero), One))]

topical_depth_score(q, a, history, p, st) ==
    LET total == IF WordCount(a) > 1 THEN WordCount(a) ELSE 1
        causal_density == Rat(Count(_CAUSAL_RE, a), total)
        example_density == Rat(Count(_EXAMPLE_RE, a), total)
        quantity_density == Rat(Count(_QUANTITY_RE, a), total)
        shallow_hits == Count(_SHALLOW_RE, a)
        base0 ==
            RAdd(RAdd(RMul(Rat(35, 100), RMin(RMul(causal_density, Int2Rat(25)), One)),
                      RMul(Rat(35, 100), RMin(RMul(example_density, Int2Rat(25)), One))),
                 RMul(Rat(30, 100), RMin(RMul(quantity_density, Int2Rat(15)), One)))
        base1 == RMax(RSub(base0, RMul(Int2Rat(shallow_hits), Rat(12, 100))), Zero)
        prior == _prior_answers(history)
        s1 == RaiseIf(st, prior.raised, "KeyError")
        s2 == embed(embed(s1, p), p)
        novelty == RSub(One, cosine(p, "answer_prior"))
        withPrior == Truthy(history) /\ ~prior.raised /\ ~IsBlank(prior.text)
        base == IF withPrior
                THEN RAdd(RMul(Rat(80, 100), base1), RMul(Rat(20, 100), novelty))
                ELSE base1
    IN  [st |-> IF ~Truthy(history) THEN st
                ELSE IF withPrior THEN s2 ELSE s1,
         val |-> Round4(RMin(base, One))]

RECURSIVE EmbedTimes(_, _, _)
EmbedTimes(n, st, p) == IF n = 0 THEN st ELSE EmbedTimes(n - 1, embed(st, p), p)

\* variant: no `if not sentences: return 0.0`, so that len(sims) divides
\* by zero for an answer without sentences
answer_completeness_score_NoEmptyGuard(q, a, history, p, st) ==
    LET s1 == embed(st, p)
        n == Cardinality(Sentences(a))
        s2 == RaiseIf(EmbedTimes(n, s1, p), n = 0, "ZeroDivisionError")
        on_topic == Rat(Cardinality({k \in 1..n : RLess(Rat(10, 100), cosine_sentence(p, k))}),
                        IF n = 0 THEN 1 ELSE n)
        score0 == RAdd(RMul(Rat(60, 100), on_topic),
                       RMul(Rat(40, 100), RMin(Rat(WordCount(a), 80), One)))
        prior == _prior_answers(history)
        s3 == RaiseIf(s2, prior.raised, "KeyError")
        s4 == embed(embed(s3, p), p)
        withPrior == Truthy(history) /\ ~prior.raised /\ ~IsBlank(prior.text)
        score == IF withPrior
                 THEN RMul(score0, RSub(One, RMul(Rat(25, 100), cosine(p, "answer_prior"))))
                 ELSE score0
    IN  [st |-> IF ~Truthy(history) THEN s2
                ELSE IF withPrior THEN s4 ELSE s3,
         val |-> Round4(RMin(RMax(score, Zero), One))]

answer_completeness_score(q, a, history, p, st) ==
    LET s1 == embed(st, p)
        sentences == Sentences(a)
        n == Cardinality(sentences)
        \* sentence number k, in text order, starts at the k-th smallest start
        s2 == EmbedTimes(n, s1, p)
        on_topic == Rat(Cardinality({k \in 1..n : RLess(Rat(10, 100), cosine_sentence(p, k))}), n)
        word_count == WordCount(a)
        length_score == RMin(Rat(word_count, 80), One)
        score0 == RAdd(RMul(Rat(60, 100), on_topic), RMul(Rat(40, 100), length_score))
        prior == _prior_answers(history)
        s3 == RaiseIf(s2, prior.raised, "KeyError")
        s4 == embed(embed(s3, p), p)
        redundancy == cosine(p, "answer_prior")
        withPrior == Truthy(history) /\ ~prior.raised /\ ~IsBlank(prior.text)
        score == IF withPrior
                 THEN RMul(score0, RSub(One, RMul(Rat(25, 100), redundancy)))
                 ELSE score0
    IN  IF n = 0 THEN [st |-> s1, val |-> 0]
        ELSE [st |-> IF ~Truthy(history) THEN s2
                     ELSE IF withPrior THEN s4 ELSE s3,
              val |-> Round4(RMin(RMax(score, Zero), One))]

\* variant: every technology mention counts in full, also with a history
specificity_score_NoDiminishing(q, a, history, st) ==
    LET total == IF WordCount(a) > 1 THEN WordCount(a) ELSE 1
        numbers == Count(NUMBER_RE, a)
        tools == FindAll(_TECH_RE, a)
        prior == _prior_answers(history)
        s1 == RaiseIf(st, prior.raised, "KeyError")
        tool_count == Int2Rat(Cardinality(tools))
        tool_score == RMin(RDiv(tool_count, RMax(RMul(Int2Rat(total), Rat(8, 100)), One)), One)
        number_score == RMin(RDiv(Int2Rat(numbers),
                                  RMax(RMul(Int2Rat(total), Rat(5, 100)), One)), One)
    IN  [st |-> IF Truthy(history) THEN s1 ELSE st,
         val |-> Round4(RAdd(RMul(Rat(55, 100), tool_score),
                             RMul(Rat(45, 100), number_score)))]

specificity_score(q, a, history, st) ==
    LET total == IF WordCount(a) > 1 THEN WordCount(a) ELSE 1
        numbers == Count(NUMBER_RE, a)
        tools == FindAll(_TECH_RE, a)
        prior == _prior_answers(history)
        s1 == RaiseIf(st, prior.raised, "KeyError")
        prior_tools == {prior.text[i] : i \in FindAll(_TECH_RE, prior.text)}
        new_tools == {i \in tools : a[i] \notin prior_tools}
        tool_count == IF Truthy(history)
                      THEN RAdd(Int2Rat(Cardinality(new_tools)),
                                RMul(Rat(3, 10),
                                     Int2Rat(Cardinality(tools) - Cardinality(new_tools))))
                      ELSE Int2Rat(Cardinality(tools))
        tool_score == RMin(RDiv(tool_count, RMax(RMul(Int2Rat(total), Rat(8, 100)), One)), One)
        number_score == RMin(RDiv(Int2Rat(numbers),
                                  RMax(RMul(Int2Rat(total), Rat(5, 100)), One)), One)
    IN  [st |-> IF Truthy(history) THEN s1 ELSE st,
         val |-> Round4(RAdd(RMul(Rat(55, 100), tool_score),
                             RMul(Rat(45, 100), number_score)))]

\* variant: hedge_rate is computed from _PASSIVE_RE, hedges go unnoticed
confidence_clarity_score_HedgesIgnored(q, a, history, st) ==
    LET sentences == Sentences(a)
        total_s == IF Cardinality(sentences) > 1 THEN Cardinality(sentences) ELSE 1
        hedge_rate == Rat(Count(_PASSIVE_RE, a), total_s)
        passive_rate == Rat(Count(_PASSIVE_RE, a), total_s)
        action_rate == Rat(Count(_ACTION_RE, a), total_s)
        score0 == RMax(RSub(RSub(One, RMul(hedge_rate, Rat(25, 100))),
                            RMul(passive_rate, Rat(15, 100))), Zero)
        score1 == RMin(RAdd(score0, RMin(RMul(action_rate, Rat(20, 100)), Rat(30, 100))), One)
        prior == _prior_answers(history)
        s1 == RaiseIf(st, prior.raised, "KeyError")
        prior_s == IF SplitFragments(prior.text) > 1 THEN SplitFragments(prior.text) ELSE 1
        prior_hedge_rate == Rat(Count(_HEDGE_RE, prior.text), prior_s)
        score == IF Truthy(history)
                 THEN RMul(score1, RSub(One, RMul(Rat(15, 100), prior_hedge_rate)))
                 ELSE score1
    IN  [st |-> IF Truthy(history) THEN s1 ELSE st,
         val |-> Round4(RMin(RMax(score, Zero), One))]

confidence_clarity_score(q, a, history, st) ==
    LET sentences == Sentences(a)
        total_s == IF Cardinality(sentences) > 1 THEN Cardinality(sentences) ELSE 1
        hedge_rate == Rat(Count(_HEDGE_RE, a), total_s)
        passive_rate == Rat(Count(_PASSIVE_RE, a), total_s)
        action_rate == Rat(Count(_ACTION_RE, a), total_s)
        score0 == RMax(RSub(RSub(One, RMul(hedge_rate, Rat(25, 100))),
                            RMul(passive_rate, Rat(15, 100))), Zero)
        score1 == RMin(RAdd(score0, RMin(RMul(action_rate, Rat(20, 100)), Rat(30, 100))), One)
        prior == _prior_answers(history)
        s1 == RaiseIf(st, prior.raised, "KeyError")
        prior_s == IF SplitFragments(prior.text) > 1 THEN SplitFragments(prior.text) ELSE 1
        prior_hedge_rate == Rat(Count(_HEDGE_RE, prior.text), prior_s)
        score == IF Truthy(history)
                 THEN RMul(score1, RSub(One, RMul(Rat(15, 100), prior_hedge_rate)))
                 ELSE score1
    IN  [st |-> IF Truthy(history) THEN s1 ELSE st,
         val |-> Round4(RMin(RMax(score, Zero), One))]

\* _check(text) of star_score: which components the text shows
StarCheck(text) == [k \in DOMAIN _STAR_RE |-> Count(_STAR_RE[k], text) > 0]

\* round(sum(components.values()) / 4, 4)
StarFraction(components) ==
    Round4(Rat(Cardinality({k \in DOMAIN components : components[k]}), 4))

\* variant: STAR_turn is taken from the components of prior answers + answer
star_score_TurnFromCumulative(q, a, history, st) ==
    LET prior == _prior_answers(history)
        s1 == RaiseIf(st, prior.raised, "KeyError")
        cum_comp == IF Truthy(history) THEN StarCheck(prior.text \o a)
                    ELSE StarCheck(a)
    IN  [st |-> IF Truthy(history) THEN s1 ELSE st,
         val |-> [STAR_turn |-> StarFraction(cum_comp),
                  STAR_cumulative |-> StarFraction(cum_comp),
                  components_turn |-> StarCheck(a)]]

\* variant: the cumulative components are those of the prior answers alone
star_score_CumulativeFromPrior(q, a, history, st) ==
    LET turn_components == StarCheck(a)
        prior == _prior_answers(history)
        s1 == RaiseIf(st, prior.raised, "KeyError")
        cum_comp == IF Truthy(history) THEN StarCheck(prior.text)
                    ELSE turn_components
    IN  [st |-> IF Truthy(history) THEN s1 ELSE st,
         val |-> [STAR_turn |-> StarFraction(turn_components),
                  STAR_cumulative |-> StarFraction(cum_comp),
                  components_turn |-> turn_components]]

star_score(q, a, history, st) ==
    LET turn_components == StarCheck(a)
        prior == _prior_answers(history)
        s1 == RaiseIf(st, prior.raised, "KeyError")
        cum_comp == IF Truthy(history) THEN StarCheck(prior.text \o a)
                    ELSE turn_components
    IN  [st |-> IF Truthy(history) THEN s1 ELSE st,
         val |-> [STAR_turn |-> StarFraction(turn_components),
                  STAR_cumulative |-> StarFraction(cum_comp),
                  components_turn |-> turn_components]]

\* the judge's outcome for the next call of llm.invoke
NextOutcome(j, st) == j[st.judges + 1]
Judged(st) == IF st.exc = "none" THEN [st EXCEPT !.judges = @ + 1] ELSE st

\* variant: `return 0.0 if raw is None else _parse_llm_json(raw)`
factual_accuracy_reasoning_quality_ZeroWhenNone(q, a, history, j, st) ==
    LET history_block == _history_text(history, 4)
        s1 == RaiseIf(st, history_block.raised, "KeyError")
        raw == _llm_critique(NextOutcome(j, s1))
    IN  [st |-> Judged(s1),
         val |-> IF s1.exc # "none" THEN 0
                 ELSE IF raw.isNone THEN 0
                 ELSE _parse_llm_json(raw.raw, "score")]

factual_accuracy_reasoning_quality(q, a, history, j, st) ==
    LET history_block == _history_text(history, 4)
        s1 == RaiseIf(st, history_block.raised, "KeyError")
        raw == _llm_critique(NextOutcome(j, s1))
    IN  [st |-> Judged(s1),
         val |-> IF s1.exc # "none" THEN 0
                 ELSE IF raw.isNone THEN -Unit
                 ELSE _parse_llm_json(raw.raw, "score")]

\* variant: after a failed judge call the judge is not invoked again and
\* the result is the sentinel
red_flag_score_SkippedAfterFailure(q, a, history, j, st) ==
    IF st.exc = "none" /\ st.judges > 0 /\ j[st.judges].raises
    THEN [st |-> st, val |-> [score |-> -Unit, flags |-> <<>>]]
    ELSE
    LET history_block == _history_text(history, 999)
        s1 == RaiseIf(st, history_block.raised, "KeyError")
        raw == _llm_critique(NextOutcome(j, s1))
        json == JsonLoads(raw.raw)
        \* float(obj.get("score", -1.0)) raises on a null score
        parsed == json.ok /\ ("score" \in DOMAIN json.obj => json.obj["score"].t = "num_member")
        score == IF "score" \in DOMAIN json.obj THEN json.obj["score"].v ELSE -Unit
        flags == IF "flags" \in DOMAIN json.obj /\ json.obj["flags"].t = "flags_member"
                 THEN FlagList(json.obj["flags"].v) ELSE <<>>
    IN  [st |-> Judged(s1),
         val |-> IF s1.exc # "none" \/ raw.isNone THEN [score |-> -Unit, flags |-> <<>>]
                 ELSE IF parsed THEN [score |-> Normalize(score), flags |-> flags]
                 ELSE [score |-> _parse_llm_json(raw.raw, "score"), flags |-> <<>>]]

red_flag_score(q, a, history, j, st) ==
    LET history_block == _history_text(history, 999)
        s1 == RaiseIf(st, history_block.raised, "KeyError")
        raw == _llm_critique(NextOutcome(j, s1))
        json == JsonLoads(raw.raw)
        \* float(obj.get("score", -1.0)) raises on a null score
        parsed == json.ok /\ ("score" \in DOMAIN json.obj => json.obj["score"].t = "num_member")
        score == IF "score" \in DOMAIN json.obj THEN json.obj["score"].v ELSE -Unit
        flags == IF "flags" \in DOMAIN json.obj /\ json.obj["flags"].t = "flags_member"
                 THEN FlagList(json.obj["flags"].v) ELSE <<>>
    IN  [st |-> Judged(s1),
         val |-> IF s1.exc # "none" \/ raw.isNone THEN [score |-> -Unit, flags |-> <<>>]
                 ELSE IF parsed THEN [score |-> Normalize(score), flags |-> flags]
                 ELSE [score |-> _parse_llm_json(raw.raw, "score"), flags |-> <<>>]]

\* variant: m["STAR_components"] is not set
TurnMetricsMapping_NoComponents(behavioral, run_llm, qar, tds, acs, ss, ccs, star, farq, rfd) ==
    LET m0 == [QAR |-> qar, TDS |-> tds, ACS |-> acs, SS |-> ss, CCS |-> ccs]
        m1 == IF behavioral
              THEN m0 @@ [STAR_turn |-> star.STAR_turn,
                          STAR_cumulative |-> star.STAR_cumulative]
              ELSE m0
    IN  IF run_llm
        THEN m1 @@ [FARQ |-> farq, RFD |-> rfd.score, RFD_flags |-> rfd.flags]
        ELSE m1

\* the mapping m of calculate_turn_metrics, assembled key by key from the
\* results of the metric functions
TurnMetricsMapping(behavioral, run_llm, qar, tds, acs, ss, ccs, star, farq, rfd) ==
    LET m0 == [QAR |-> qar, TDS |-> tds, ACS |-> acs, SS |-> ss, CCS |-> ccs]
        m1 == IF behavioral
              THEN m0 @@ [STAR_turn |-> star.STAR_turn,
                          STAR_cumulative |-> star.STAR_cumulative,
                          STAR_components |-> star.components_turn]
              ELSE m0
    IN  IF run_llm
        THEN m1 @@ [FARQ |-> farq, RFD |-> rfd.score, RFD_flags |-> rfd.flags]
        ELSE m1

\* a statement that is not executed leaves the call where it is
Skipped(st) == [st |-> st, val |-> <<>>]

\* `name = value` followed by the rest of the function body
Then(value, rest(_)) == rest(value)

\* `return m`, unless an exception has ended the call
Returned(st, m) ==
    [exc |-> st.exc, embeds |-> st.embeds, judges |-> st.judges,
     val |-> IF st.exc = "none" THEN m ELSE <<>>]

\* the metric functions run one after the other; one that raises ends the
\* call, and then nothing is returned
calculate_turn_metrics(q, a, history, behavioral, run_llm, p, j) ==
    Then(question_answer_relevance(q, a, history, p, Start), LAMBDA qar :
    Then(topical_depth_score(q, a, history, p, qar.st), LAMBDA tds :
    Then(answer_completeness_score(q, a, history, p, tds.st), LAMBDA acs :
    Then(specificity_score(q, a, history, acs.st), LAMBDA ss :
    Then(confidence_clarity_score(q, a, history, ss.st), LAMBDA ccs :
    Then(IF behavioral THEN star_score(q, a, history, ccs.st)
         ELSE Skipped(ccs.st), LAMBDA star :
    Then(IF run_llm THEN factual_accuracy_reasoning_quality(q, a, history, j, star.st)
         ELSE Skipped(star.st), LAMBDA farq :
    Then(IF run_llm THEN red_flag_score(q, a, history, j, farq.st)
         ELSE Skipped(farq.st), LAMBDA rfd :
    Returned(rfd.st,
             TurnMetricsMapping(behavioral, run_llm, qar.val, tds.val, acs.val,
                                ss.val, ccs.val, star.val, farq.val, rfd.val))))))))))

-----------------------------------------------------------------------------
(* Inputs                                                                  *)

\* all sequences over S of length at most n
SeqsUpTo(S, n) == UNION {[1..k -> S] : k \in 0..n}

NoCall == [called |-> FALSE]

Pairs == {"question_answer", "answer_context", "answer_prior"}

\* a provider that raises on call number k (never if k = 0), gives the
\* cosine c for every pair of texts and cs for every sentence of the answer
Provider(k, c, cs, a) ==
    [failAt |-> k, cos |-> [pair \in Pairs |-> c],
     sent |-> [i \in 1..Cardinality(Sentences(a)) |-> cs]]

\* the record metrics_node appends to the session history after each turn
TurnRecord ==
    [chat_id |-> "uuid", question |-> <<"team">>, response |-> <<"team">>,
     metrics |-> <<>>, phase_name |-> "technical", topic_id |-> 0]

UserTurn(content) == [role |-> "user", content |-> content]
AssistantTurn(content) == [role |-> "assistant", content |-> content]

-----------------------------------------------------------------------------
(* Calls of the master aggregator                                          *)

MaxAnswerLen == 2
MaxHistory == 2
MaxFailAt == 3

TurnLexemes == {"team", "."}
TurnRecords == {UserTurn(<<"team">>), AssistantTurn(<<"maybe", "python">>),
                [role |-> "assistant"], TurnRecord}
TurnHistories == {None} \cup {List(h) : h \in SeqsUpTo(TurnRecords, MaxHistory)}
\* every cosine the provider gives during one call: -1, 0.2 (above the
\* on-topic threshold 0.10 of answer_completeness_score), or 1
TurnCosines == {-Unit, 2000, Unit}
\* a provider that never raises and gives one of the cosines, or one that
\* raises on one of its first MaxFailAt calls
TurnProviders(a) ==
    {Provider(0, c, c, a) : c \in TurnCosines}
        \cup {Provider(k, Unit, Unit, a) : k \in 1..MaxFailAt}
\* the judge raises, or answers with a JSON object whose score is 0.5 or 50
JudgeScores == {5000, 50 * Unit}
TurnReplies ==
    {Raises} \cup {Answers(<<LBrace, Member("score", v), RBrace>>) : v \in JudgeScores}

MaxThreads == 2
Threads == 1..MaxThreads

\* the modules are imported (load_dotenv has run): no call is in progress,
\* no thread is in _check_llm, the flag is unset
Imported ==
    /\ pc = "idle"
    /\ op = "none"
    /\ question = <<>>
    /\ answer = <<>>
    /\ chat_history = None
    /\ behavioral_phase = FALSE
    /\ run_llm_metrics = FALSE
    /\ provider = Provider(0, 0, 0, <<>>)
    /\ judge = <<>>
    /\ result = NoCall
    /\ other = NoCall
    /\ last_n_passed = 999
    /\ _LLM_AVAILABLE = "None"
    /\ environ \in BOOLEAN
    /\ threads = [t \in Threads |-> [at |-> "idle", returned |-> "nothing"]]
    /\ session_store = <<>>
    /\ redis = [stored |-> FALSE, value |-> <<>>]
    /\ chat = <<>>
    /\ returned = [called |-> FALSE]
    /\ graph = [at |-> "idle", state |-> <<>>, steps |-> 0]
    /\ topic_call = [called |-> FALSE]

\* ... in a process that has the key of the judge
Idle == Imported /\ environ

\* a caller invokes calculate_turn_metrics on one of the given inputs
CalculateOn(answers, histories, replies) ==
    /\ pc = "idle"
    /\ \E a \in answers, h \in histories, b \in BOOLEAN, l \in BOOLEAN :
        \E p \in TurnProviders(a), j \in IF l THEN [1..2 -> replies] ELSE {<<>>} :
            /\ op' = "calculate_turn_metrics"
            /\ question' = <<"team">>
            /\ answer' = a
            /\ chat_history' = h
            /\ behavioral_phase' = b
            /\ run_llm_metrics' = l
            /\ provider' = p
            /\ judge' = j
            /\ result' = calculate_turn_metrics(<<"team">>, a, h, b, l, p, j)
    /\ pc' = "done"
    /\ other' = NoCall
    /\ UNCHANGED <<last_n_passed, process, session>>

\* a caller invokes calculate_turn_metrics
CalculateTurnMetrics ==
    CalculateOn(SeqsUpTo(TurnLexemes, MaxAnswerLen), TurnHistories, TurnReplies)

\* the caller repeats a call that had chat_history = None with
\* chat_history = [], the provider and the judge behaving as before
CalculateAgainWithEmptyList ==
    /\ pc = "done"
    /\ op = "calculate_turn_metrics"
    /\ chat_history = None
    /\ other' = [called |-> TRUE, answer |-> answer, chat_history |-> List(<<>>),
                 result |-> calculate_turn_metrics(question, answer, List(<<>>),
                                behavioral_phase, run_llm_metrics, provider, judge)]
    /\ pc' = "compared"
    /\ UNCHANGED <<last_n_passed, process, session>>
    /\ UNCHANGED <<op, question, answer, chat_history, behavioral_phase,
                   run_llm_metrics, provider, judge, result>>

\* what a call of one metric function produced: its value, or nothing when
\* it raised
Outcome(r) == [exc |-> r.st.exc, embeds |-> r.st.embeds, judges |-> r.st.judges,
               val |-> IF r.st.exc = "none" THEN r.val ELSE <<>>]

\* a caller invokes factual_accuracy_reasoning_quality
CallFARQ(answers, histories, replies) ==
    /\ pc = "idle"
    /\ \E a \in answers, h \in histories, r \in replies :
            /\ answer' = a
            /\ chat_history' = h
            /\ judge' = <<r>>
            /\ result' = Outcome(factual_accuracy_reasoning_quality(
                                    <<"team">>, a, h, <<r>>, Start))
    /\ op' = "factual_accuracy_reasoning_quality"
    /\ question' = <<"team">>
    /\ pc' = "done"
    /\ UNCHANGED <<last_n_passed, process, session>>
    /\ UNCHANGED <<behavioral_phase, run_llm_metrics, provider, other>>

\* a caller invokes red_flag_score
CallRFD(answers, histories, replies) ==
    /\ pc = "idle"
    /\ \E a \in answers, h \in histories, r \in replies :
            /\ answer' = a
            /\ chat_history' = h
            /\ judge' = <<r>>
            /\ result' = Outcome(red_flag_score(<<"team">>, a, h, <<r>>, Start))
    /\ op' = "red_flag_score"
    /\ question' = <<"team">>
    /\ pc' = "done"
    /\ UNCHANGED <<last_n_passed, process, session>>
    /\ UNCHANGED <<behavioral_phase, run_llm_metrics, provider, other>>

TurnNext ==
    \/ CalculateTurnMetrics
    \/ CalculateAgainWithEmptyList
    \/ CallFARQ(SeqsUpTo(TurnLexemes, MaxAnswerLen), TurnHistories, TurnReplies)
    \/ CallRFD(SeqsUpTo(TurnLexemes, MaxAnswerLen), TurnHistories, TurnReplies)

SpecTurn == Idle /\ [][TurnNext]_vars

-----------------------------------------------------------------------------
(* Properties of the master aggregator                                     *)

BaseKeys == {"QAR", "TDS", "ACS", "SS", "CCS"}
StarKeys == {"STAR_turn", "STAR_cumulative", "STAR_components"}
JudgedKeys == {"FARQ", "RFD", "RFD_flags"}
NumericKeys == (BaseKeys \cup StarKeys \cup JudgedKeys) \ {"STAR_components", "RFD_flags"}

\* the call of calculate_turn_metrics is over
TurnCalled == pc # "idle" /\ op = "calculate_turn_metrics"
\* ... and it returned a mapping
TurnReturned == TurnCalled /\ result.exc = "none"

InUnitOrSentinel(v) == (0 <= v /\ v <= Unit) \/ v = -Unit

\* every record of the history has the fields role and content
IsTurnList(history) ==
    \A i \in DOMAIN history.turns : {"role", "content"} \subseteq DOMAIN history.turns[i]

\* every call of the judge raises
JudgeUnavailable == judge # <<>> /\ \A i \in DOMAIN judge : judge[i].raises

\* C1: every numeric value of the mapping calculate_turn_metrics returns
\* is in [0.0, 1.0] or is exactly -1.0, whatever text the judge returns.
C1_Boundedness ==
    TurnReturned =>
        \A k \in DOMAIN result.val \cap NumericKeys : InUnitOrSentinel(result.val[k])

\* C2: when the judge is unavailable and the history holds {role, content}
\* turns, factual_accuracy_reasoning_quality returns -1.0, red_flag_score
\* returns {score: -1.0, flags: []}, and calculate_turn_metrics with
\* run_llm_metrics = true raises nothing on account of the judge: with an
\* embedding provider that does not fail it returns a mapping with
\* FARQ = -1.0, RFD = -1.0 and RFD_flags = [].
C2_JudgeUnavailable ==
    (pc # "idle" /\ JudgeUnavailable /\ IsTurnList(chat_history)) =>
        CASE op = "factual_accuracy_reasoning_quality" ->
                result.exc = "none" /\ result.val = -Unit
          [] op = "red_flag_score" ->
                result.exc = "none" /\ result.val = [score |-> -Unit, flags |-> <<>>]
          [] op = "calculate_turn_metrics" ->
                /\ result.exc \in {"none", "EmbeddingError"}
                /\ result.exc = "EmbeddingError" => result.judges = 0
                /\ provider.failAt = 0 =>
                      /\ result.exc = "none"
                      /\ result.judges = 2
                      /\ result.val.FARQ = -Unit
                      /\ result.val.RFD = -Unit
                      /\ result.val.RFD_flags = <<>>

C2_Witness ==
    /\ TurnReturned /\ run_llm_metrics /\ JudgeUnavailable
    /\ Truthy(chat_history) /\ IsTurnList(chat_history)
    /\ result.val.FARQ = -Unit /\ result.val.RFD = -Unit

\* C3: the keys of the returned mapping are QAR, TDS, ACS, SS, CCS, the
\* three STAR keys exactly when behavioral_phase is true, and FARQ, RFD,
\* RFD_flags exactly when run_llm_metrics is true; there is no other key.
C3_KeySet ==
    TurnReturned =>
        DOMAIN result.val =
            BaseKeys \cup (IF behavioral_phase THEN StarKeys ELSE {})
                     \cup (IF run_llm_metrics THEN JudgedKeys ELSE {})

C3_Witness ==
    /\ TurnReturned /\ behavioral_phase /\ ~run_llm_metrics
    /\ DOMAIN result.val = BaseKeys \cup StarKeys

\* C4: when the embedding provider raises, calculate_turn_metrics raises:
\* the call ends with the provider's exception at the failing embedding
\* call, which is the last one made (no retry), the judge is not called and
\* no mapping is returned; the first two embedding calls are made in every
\* call, so a provider failing there always makes the call raise.
C4_EmbeddingFailurePropagates ==
    (TurnCalled /\ provider.failAt > 0) =>
        /\ provider.failAt <= 2 => result.embeds = provider.failAt
        /\ result.embeds >= provider.failAt =>
              /\ result.exc = "EmbeddingError"
              /\ result.embeds = provider.failAt
              /\ result.judges = 0
              /\ result.val = <<>>

C4_Witness ==
    /\ TurnCalled /\ provider.failAt = 3 /\ run_llm_metrics
    /\ Truthy(chat_history)
    /\ result.exc = "EmbeddingError" /\ result.embeds = 3

\* C6: with an embedding provider that does not fail, calculate_turn_metrics
\* does not raise, also when records of the history lack the role or the
\* content field, for both values of run_llm_metrics.
C6_NoRaiseOnMissingFields ==
    (TurnCalled /\ provider.failAt = 0) => result.exc = "none"

\* C7: calculate_turn_metrics, and with it every metric function whose
\* value it reports, gives the same result for chat_history = None and for
\* chat_history = [] under the same embedding and judge responses.
C7_NoneEqualsEmptyList ==
    pc = "compared" =>
        /\ other.result.exc = result.exc
        /\ other.result.embeds = result.embeds
        /\ other.result.judges = result.judges
        /\ result.exc = "none" => other.result.val = result.val

C7_Witness ==
    /\ pc = "compared" /\ chat_history = None /\ other.chat_history = List(<<>>)
    /\ behavioral_phase /\ run_llm_metrics
    /\ result.exc = "none" /\ other.result.val = result.val

-----------------------------------------------------------------------------
(* Calls of the two judged metrics on arbitrary judge responses            *)

MaxRawLen == 3

\* what a judge response is made of: braces, a score member (-1, 0.5 or 7),
\* a null score, a flags member, a number in the commentary (7 or 50), a word
JudgeTokens ==
    {LBrace, RBrace, Word, NullMember("score"), FlagsMember(1),
     Number(7 * Unit), Number(50 * Unit)}
        \cup {Member("score", v) : v \in {-Unit, 5000, 7 * Unit}}
JudgeReplies == {Raises} \cup {Answers(raw) : raw \in SeqsUpTo(JudgeTokens, MaxRawLen)}
JudgeAnswers == {<<"team", ".">>}
JudgeHistories == {None, List(<<UserTurn(<<"team">>), AssistantTurn(<<"python">>)>>)}

JudgeNext ==
    \/ CallFARQ(JudgeAnswers, JudgeHistories, JudgeReplies)
    \/ CallRFD(JudgeAnswers, JudgeHistories, JudgeReplies)

SpecJudge == Idle /\ [][JudgeNext]_vars

\* the score a call of a judged metric returned
JudgedScore ==
    IF op = "red_flag_score" THEN result.val.score ELSE result.val

\* the response carries a score: a JSON object with a numeric score field
CarriesScore(raw) ==
    LET json == JsonLoads(raw)
    IN  json.ok /\ "score" \in DOMAIN json.obj /\ json.obj["score"].t = "num_member"

\* a numeric value can be recovered from the response: its score, or a
\* standalone number of [0, 10] anywhere in the text
Recoverable(raw) ==
    \/ CarriesScore(raw)
    \/ \E i \in DOMAIN raw :
          /\ raw[i].t \in {"num_member", "number"}
          /\ Abs(raw[i].v) <= 10 * Unit

\* C5: FARQ and the RFD score are the sentinel -1.0 only when the judge
\* call failed or no numeric value could be recovered from the response;
\* never for a response that carried a score.
C5_SentinelOnlyWhenNoScore ==
    (/\ pc = "done"
     /\ op \in {"factual_accuracy_reasoning_quality", "red_flag_score"}
     /\ result.exc = "none"
     /\ JudgedScore = -Unit)
        => judge[1].raises \/ ~Recoverable(judge[1].content)

-----------------------------------------------------------------------------
(* Calls of confidence_clarity_score                                       *)

MaxCcsLen == 3

CcsLexemes == {"team", "maybe", "I built", "was built", "."}

\* "Maybe I have. I think I might have been involved in something like
\* that. I'm not certain.": 18 words in 3 sentences; apart from the three
\* hedge phrases no word of it matches a pattern
HedgingAnswer ==
    <<"maybe", "team", "team", ".",
      "I think", "team", "team", "team", "team", "team", "team", "team", "team", "team", ".",
      "I'm not certain", ".">>

CcsAnswers == SeqsUpTo(CcsLexemes, MaxCcsLen) \cup {HedgingAnswer}

\* no history, questions only, one hedge in two fragments of prior answers,
\* seven hedges in one fragment
CcsHistories ==
    {None, List(<<>>),
     List(<<UserTurn(<<"team">>)>>),
     List(<<UserTurn(<<"team">>), AssistantTurn(<<"maybe", ".">>)>>),
     List(<<AssistantTurn(<<"maybe", "maybe", "maybe", "maybe", "maybe", "maybe", "maybe">>)>>)}

\* a caller invokes confidence_clarity_score
CallCCS ==
    /\ pc = "idle"
    /\ \E a \in CcsAnswers, h \in CcsHistories :
            /\ answer' = a
            /\ chat_history' = h
            /\ result' = Outcome(confidence_clarity_score(<<"team">>, a, h, Start))
    /\ op' = "confidence_clarity_score"
    /\ question' = <<"team">>
    /\ pc' = "done"
    /\ UNCHANGED <<last_n_passed, process, session>>
    /\ UNCHANGED <<behavioral_phase, run_llm_metrics, provider, judge, other>>

SentenceCount(a) == Cardinality(Sentences(a))

\* the caller scores, with the same history, a second answer that has the
\* same numbers of sentences, passive constructions and assertive actions
\* but more hedge phrases
CallCCSMoreHedged ==
    /\ pc = "done"
    /\ op = "confidence_clarity_score"
    /\ \E b \in CcsAnswers :
            /\ SentenceCount(b) = SentenceCount(answer)
            /\ Count(_PASSIVE_RE, b) = Count(_PASSIVE_RE, answer)
            /\ Count(_ACTION_RE, b) = Count(_ACTION_RE, answer)
            /\ Count(_HEDGE_RE, b) > Count(_HEDGE_RE, answer)
            /\ other' = [called |-> TRUE, answer |-> b, chat_history |-> chat_history,
                         result |-> Outcome(confidence_clarity_score(
                                                question, b, chat_history, Start))]
    /\ pc' = "compared"
    /\ UNCHANGED <<last_n_passed, process, session>>
    /\ UNCHANGED <<op, question, answer, chat_history, behavioral_phase,
                   run_llm_metrics, provider, judge, result>>

CcsNext == CallCCS \/ CallCCSMoreHedged

SpecCCS == Idle /\ [][CcsNext]_vars

CcsCompared == pc = "compared" /\ op = "confidence_clarity_score"

\* C8 as claimed: the more-hedged answer scores strictly less.
C8_StrictlyLess ==
    CcsCompared => other.result.val < result.val

\* no clamp of confidence_clarity_score is active for the two answers: the
\* penalised base of the more-hedged answer b is positive, the boosted
\* score of the less-hedged answer a is below 1, and the history multiplier
\* is positive
CcsUnclamped(a, b, history) ==
    LET s == IF SentenceCount(a) > 1 THEN SentenceCount(a) ELSE 1
        prior == _prior_answers(history).text
    IN  /\ 25 * Count(_HEDGE_RE, b) + 15 * Count(_PASSIVE_RE, b) < 100 * s
        /\ (IF 20 * Count(_ACTION_RE, a) < 30 * s
            THEN 20 * Count(_ACTION_RE, a) ELSE 30 * s)
              < 25 * Count(_HEDGE_RE, a) + 15 * Count(_PASSIVE_RE, a)
        /\ Truthy(history) => 15 * Count(_HEDGE_RE, prior) < 100 * SplitFragments(prior)

\* the unrounded scores of two unclamped answers differ by more than 0.0001
CcsGapSurvivesRounding(a, b, history) ==
    LET s == IF SentenceCount(a) > 1 THEN SentenceCount(a) ELSE 1
        prior == _prior_answers(history).text
        mult == IF Truthy(history)
                THEN RSub(One, RMul(Rat(15, 100),
                                    Rat(Count(_HEDGE_RE, prior), SplitFragments(prior))))
                ELSE One
        gap == RMul(RMul(Rat(25, 100),
                         Rat(Count(_HEDGE_RE, b) - Count(_HEDGE_RE, a), s)), mult)
    IN  RLess(Rat(1, Unit), gap)

\* C8, amended: the more-hedged answer never scores more than the
\* less-hedged one, and it scores strictly less when no clamp is active and
\* the unrounded scores differ by more than 0.0001.
C8_NeverMoreAndLessIfUnclamped ==
    CcsCompared =>
        /\ other.result.val <= result.val
        /\ (/\ CcsUnclamped(answer, other.answer, chat_history)
            /\ CcsGapSurvivesRounding(answer, other.answer, chat_history))
              => other.result.val < result.val

C8_Witness ==
    /\ CcsCompared
    /\ Truthy(chat_history)
    /\ CcsUnclamped(answer, other.answer, chat_history)
    /\ Count(_ACTION_RE, answer) > 0
    /\ other.result.val < result.val

\* the scenario of C10 was scored with no history
HedgingScenario ==
    /\ pc # "idle" /\ op = "confidence_clarity_score"
    /\ answer = HedgingAnswer /\ ~Truthy(chat_history)

\* C10 as claimed: the hedging answer scores below 0.3.
C10_HedgingBelow03 ==
    HedgingScenario => result.val < 3000

\* C10, amended: the hedging answer (three hedge phrases in three
\* sentences, hedge rate 1) scores 1 - 0.25 = 0.75, which is not below 0.3.
C10_HedgingIs075 ==
    HedgingScenario => result.val = 7500

C10_Witness ==
    /\ HedgingScenario
    /\ chat_history = None
    /\ Count(_HEDGE_RE, answer) = 3 /\ SentenceCount(answer) = 3
    /\ result.exc = "none"

-----------------------------------------------------------------------------
(* Calls of specificity_score                                              *)

MaxSsLen == 4

\* one-word lexemes: a plain word, two technology terms, a number
SsLexemes == {"team", "python", "kafka", "7"}
SsAnswers == SeqsUpTo(SsLexemes, MaxSsLen)

\* prior answers that mention python, prior answers that mention kafka,
\* and histories without any prior answer
SsHistories ==
    {None,
     List(<<UserTurn(<<"kafka">>)>>),
     List(<<UserTurn(<<"team">>), AssistantTurn(<<"python", ".">>)>>),
     List(<<AssistantTurn(<<"team", "kafka">>), UserTurn(<<"python">>)>>)}

\* the technology terms of a text
ToolsOf(text) == {text[i] : i \in FindAll(_TECH_RE, text)}

\* a caller invokes specificity_score
CallSS ==
    /\ pc = "idle"
    /\ \E a \in SsAnswers, h \in SsHistories :
            /\ answer' = a
            /\ chat_history' = h
            /\ result' = Outcome(specificity_score(<<"team">>, a, h, Start))
    /\ op' = "specificity_score"
    /\ question' = <<"team">>
    /\ pc' = "done"
    /\ UNCHANGED <<last_n_passed, process, session>>
    /\ UNCHANGED <<behavioral_phase, run_llm_metrics, provider, judge, other>>

\* the answer scored mentions only a technology term that the prior
\* answers mention already; the caller scores, with the same history, a
\* second answer with as many tokens and numbers that mentions, equally
\* often, only one term that the prior answers lack
CallSSNewTerm ==
    /\ pc = "done"
    /\ op = "specificity_score"
    /\ Cardinality(ToolsOf(answer)) = 1
    /\ ToolsOf(answer) \subseteq ToolsOf(_prior_answers(chat_history).text)
    /\ \E b \in SsAnswers :
            /\ WordCount(b) = WordCount(answer)
            /\ Count(NUMBER_RE, b) = Count(NUMBER_RE, answer)
            /\ Count(_TECH_RE, b) = Count(_TECH_RE, answer)
            /\ Cardinality(ToolsOf(b)) = 1
            /\ ToolsOf(b) \cap ToolsOf(_prior_answers(chat_history).text) = {}
            /\ other' = [called |-> TRUE, answer |-> b, chat_history |-> chat_history,
                         result |-> Outcome(specificity_score(
                                                question, b, chat_history, Start))]
    /\ pc' = "compared"
    /\ UNCHANGED <<last_n_passed, process, session>>
    /\ UNCHANGED <<op, question, answer, chat_history, behavioral_phase,
                   run_llm_metrics, provider, judge, result>>

SsNext == CallSS \/ CallSSNewTerm

SpecSS == Idle /\ [][SsNext]_vars

SsCompared == pc = "compared" /\ op = "specificity_score"

\* C9 as claimed: the answer repeating a known term scores strictly lower
\* than the answer introducing a new term.
C9_RepeatStrictlyLower ==
    SsCompared => result.val < other.result.val

\* the tool score of the answer a, which repeats a known term n times, is
\* not capped at 1: 0.3 n < max(0.08 tokens, 1), and the unrounded scores
\* 0.55 x 0.3 n / max(..) and 0.55 x min(n / max(..), 1) differ by more
\* than 0.0001
SsRepeatUncapped(a) ==
    LET total == IF WordCount(a) > 1 THEN WordCount(a) ELSE 1
        n == Count(_TECH_RE, a)
        m == RMax(Rat(8 * total, 100), One)
        repeated == RDiv(Rat(3 * n, 10), m)
        fresh == RMin(RDiv(Int2Rat(n), m), One)
    IN  /\ RLess(repeated, One)
        /\ RLess(Rat(1, Unit), RMul(Rat(55, 100), RSub(fresh, repeated)))

\* C9, amended: the repeating answer never scores higher than the answer
\* introducing a new term, and scores strictly lower when its own tool
\* score is not capped at 1 and the unrounded scores differ by more than
\* 0.0001.
C9_RepeatNeverHigherAndLowerIfUncapped ==
    SsCompared =>
        /\ result.val <= other.result.val
        /\ SsRepeatUncapped(answer) => result.val < other.result.val

C9_Witness ==
    /\ SsCompared
    /\ Count(_TECH_RE, answer) = 2
    /\ Count(NUMBER_RE, answer) = 1
    /\ SsRepeatUncapped(answer)
    /\ result.val < other.result.val

-----------------------------------------------------------------------------
(* Direct calls of the local metrics                                       *)

\* a caller invokes question_answer_relevance with a provider that gives
\* one of the cosines for every pair of texts
CallQAR(answers, histories, cosines) ==
    /\ pc = "idle"
    /\ \E a \in answers, h \in histories, c \in cosines :
            /\ answer' = a
            /\ chat_history' = h
            /\ provider' = Provider(0, c, c, a)
            /\ result' = Outcome(question_answer_relevance(
                                    <<"team">>, a, h, Provider(0, c, c, a), Start))
    /\ op' = "question_answer_relevance"
    /\ question' = <<"team">>
    /\ pc' = "done"
    /\ UNCHANGED <<last_n_passed, process, session>>
    /\ UNCHANGED <<behavioral_phase, run_llm_metrics, judge, other>>

\* a caller invokes topical_depth_score
CallTDS(answers, histories, cosines) ==
    /\ pc = "idle"
    /\ \E a \in answers, h \in histories, c \in cosines :
            /\ answer' = a
            /\ chat_history' = h
            /\ provider' = Provider(0, c, c, a)
            /\ result' = Outcome(topical_depth_score(
                                    <<"team">>, a, h, Provider(0, c, c, a), Start))
    /\ op' = "topical_depth_score"
    /\ question' = <<"team">>
    /\ pc' = "done"
    /\ UNCHANGED <<last_n_passed, process, session>>
    /\ UNCHANGED <<behavioral_phase, run_llm_metrics, judge, other>>

\* a caller invokes answer_completeness_score
CallACS(answers, histories, cosines) ==
    /\ pc = "idle"
    /\ \E a \in answers, h \in histories, c \in cosines :
            /\ answer' = a
            /\ chat_history' = h
            /\ provider' = Provider(0, c, c, a)
            /\ result' = Outcome(answer_completeness_score(
                                    <<"team">>, a, h, Provider(0, c, c, a), Start))
    /\ op' = "answer_completeness_score"
    /\ question' = <<"team">>
    /\ pc' = "done"
    /\ UNCHANGED <<last_n_passed, process, session>>
    /\ UNCHANGED <<behavioral_phase, run_llm_metrics, judge, other>>

\* a caller invokes specificity_score on one of the given inputs
CallSSOn(answers, histories) ==
    /\ pc = "idle"
    /\ \E a \in answers, h \in histories :
            /\ answer' = a
            /\ chat_history' = h
            /\ result' = Outcome(specificity_score(<<"team">>, a, h, Start))
    /\ op' = "specificity_score"
    /\ question' = <<"team">>
    /\ pc' = "done"
    /\ UNCHANGED <<last_n_passed, process, session>>
    /\ UNCHANGED <<behavioral_phase, run_llm_metrics, provider, judge, other>>

\* a caller invokes confidence_clarity_score on one of the given inputs
CallCCSOn(answers, histories) ==
    /\ pc = "idle"
    /\ \E a \in answers, h \in histories :
            /\ answer' = a
            /\ chat_history' = h
            /\ result' = Outcome(confidence_clarity_score(<<"team">>, a, h, Start))
    /\ op' = "confidence_clarity_score"
    /\ question' = <<"team">>
    /\ pc' = "done"
    /\ UNCHANGED <<last_n_passed, process, session>>
    /\ UNCHANGED <<behavioral_phase, run_llm_metrics, provider, judge, other>>

\* a caller invokes star_score
CallSTAR(answers, histories) ==
    /\ pc = "idle"
    /\ \E a \in answers, h \in histories :
            /\ answer' = a
            /\ chat_history' = h
            /\ result' = Outcome(star_score(<<"team">>, a, h, Start))
    /\ op' = "star_score"
    /\ question' = <<"team">>
    /\ pc' = "done"
    /\ UNCHANGED <<last_n_passed, process, session>>
    /\ UNCHANGED <<behavioral_phase, run_llm_metrics, provider, judge, other>>

-----------------------------------------------------------------------------
(* The strong technical answer                                             *)

MaxFiller == 56
MaxPassive == 5

\* what an answer states as a quantified claim: a number with a unit
QuantifiedClaims == {"3x", "40%"}

\* n times the lexeme l
Repeat(l, n) == [i \in 1..n |-> l]

\* a sentence with a causal connective, an example marker, a quantified
\* claim and a first-person action verb, followed by passive constructions
\* and plain words
StrongAnswers ==
    {<<"because", "for example", q, "I built", ".">>
        \o Repeat("was built", k) \o Repeat("team", n) :
            q \in QuantifiedClaims, k \in 0..MaxPassive, n \in 0..MaxFiller}

NoHistory == {None, List(<<>>)}

StrongNext ==
    \/ CallTDS(StrongAnswers, NoHistory, {0})
    \/ CallSSOn(StrongAnswers, NoHistory)
    \/ CallCCSOn(StrongAnswers, NoHistory)

SpecStrong == Idle /\ [][StrongNext]_vars

\* the answer has what C11 asks for
IsStrong(a) ==
    /\ Count(_CAUSAL_RE, a) >= 1
    /\ Count(_EXAMPLE_RE, a) >= 1
    /\ Count(QuantifiedClaims, a) >= 1
    /\ Count(_ACTION_RE, a) >= 1
    /\ Count(_HEDGE_RE, a) = 0
    /\ Count(_SHALLOW_RE, a) = 0

\* C11: an answer of any length with a causal connective, an example
\* marker, a quantified claim and a first-person action verb, without hedge
\* and shallow filler, scored with no history, has topical_depth_score > 0.3,
\* specificity_score > 0 and confidence_clarity_score > 0.5.
C11_StrongAnswerScores ==
    (pc = "done" /\ IsStrong(answer) /\ ~Truthy(chat_history)) =>
        CASE op = "topical_depth_score" -> result.val > 3000
          [] op = "specificity_score" -> result.val > 0
          [] op = "confidence_clarity_score" -> result.val > 5000
          [] OTHER -> TRUE

-----------------------------------------------------------------------------
(* Calls of star_score                                                     *)

MaxStarLen == 4

\* a plain word, one lexeme for each of situation, task and action, one for
\* result, and "I reduced", which shows an action and a result
StarLexemes == {"team", "project", "task", "I built", "result", "I reduced"}
StarAnswers == SeqsUpTo(StarLexemes, MaxStarLen)

\* no history, a question only, prior answers that show a situation and a
\* task, prior answers that show nothing
StarHistories ==
    {None,
     List(<<UserTurn(<<"project">>)>>),
     List(<<UserTurn(<<"team">>), AssistantTurn(<<"project", "task">>)>>),
     List(<<AssistantTurn(<<"team">>), UserTurn(<<"result">>)>>)}

StarNext == CallSTAR(StarAnswers, StarHistories)

SpecStar == Idle /\ [][StarNext]_vars

\* the components of situation, task, action, result that a text shows
ComponentsIn(text) == {k \in DOMAIN _STAR_RE : Count(_STAR_RE[k], text) > 0}

StarCalled == pc = "done" /\ op = "star_score" /\ result.exc = "none"

\* C12: STAR_turn is the number of the four components detected in the
\* current answer, divided by 4, whatever the history; it is 1.0 whenever
\* the answer alone shows all four.
C12_StarTurnOfAnswerAlone ==
    StarCalled =>
        /\ result.val.STAR_turn = (Unit \div 4) * Cardinality(ComponentsIn(answer))
        /\ result.val.STAR_turn \in {0, 2500, 5000, 7500, Unit}
        /\ ComponentsIn(answer) = DOMAIN _STAR_RE => result.val.STAR_turn = Unit

\* an answer with three components after prior answers that show the
\* fourth: the cumulative score is 1.0, STAR_turn is 0.75
C12_Witness ==
    /\ StarCalled
    /\ Truthy(chat_history)
    /\ ComponentsIn(answer) = {"action", "result", "task"}
    /\ result.val.STAR_turn = 7500
    /\ result.val.STAR_cumulative = Unit

-----------------------------------------------------------------------------
(* Calls of every metric function on short answers                         *)

MaxLocalLen == 2

\* white space, a sentence end, a plain word, and one lexeme for each
\* pattern the local metrics count
LocalLexemes ==
    {" ", ".", "team", "because", "3x", "did some stuff", "python", "maybe",
     "I built", "was built", "project"}
LocalAnswers == SeqsUpTo(LocalLexemes, MaxLocalLen)

\* no history, a question only, a question and a hedged answer that names
\* a technology, a prior answer of white space
LocalHistories ==
    {None, List(<<>>),
     List(<<UserTurn(<<"team">>)>>),
     List(<<UserTurn(<<"team">>), AssistantTurn(<<"maybe", "python", ".">>)>>),
     List(<<AssistantTurn(<<" ">>)>>)}

\* cosine values of [-1, 1]
LocalCosines == {-Unit, 0, 2000, Unit}

LocalNext ==
    \/ CallQAR(LocalAnswers, LocalHistories, LocalCosines)
    \/ CallTDS(LocalAnswers, LocalHistories, LocalCosines)
    \/ CallACS(LocalAnswers, LocalHistories, LocalCosines)
    \/ CallSSOn(LocalAnswers, LocalHistories)
    \/ CallCCSOn(LocalAnswers, LocalHistories)
    \/ CallSTAR(LocalAnswers, LocalHistories)
    \/ CallFARQ(LocalAnswers, LocalHistories, TurnReplies)
    \/ CallRFD(LocalAnswers, LocalHistories, TurnReplies)

SpecLocal == Idle /\ [][LocalNext]_vars

\* a metric function was called on an empty or white-space-only answer
\* with no history
BlankAnswerScored == pc = "done" /\ IsBlank(answer) /\ ~Truthy(chat_history)

\* C13: for an empty or white-space-only answer with no history and an
\* embedding provider that does not fail, no metric function raises (none
\* divides by zero), and topical_depth_score, answer_completeness_score
\* and specificity_score return 0.0.
C13_BlankAnswerFloors ==
    BlankAnswerScored =>
        /\ result.exc = "none"
        /\ op \in {"topical_depth_score", "answer_completeness_score",
                   "specificity_score"} => result.val = 0

C13_Witness ==
    /\ BlankAnswerScored
    /\ op = "answer_completeness_score"
    /\ answer = <<" ", " ">>
    /\ result.exc = "none" /\ result.embeds = 1 /\ result.val = 0

LocalMetrics ==
    {"question_answer_relevance", "topical_depth_score", "answer_completeness_score",
     "specificity_score", "confidence_clarity_score"}

InUnit(v) == 0 <= v /\ v <= Unit

\* C14: QAR, TDS, ACS, SS, CCS, STAR_turn and STAR_cumulative are never
\* negative and never above 1, for every answer, history and cosine of
\* [-1, 1]; none of them is ever the sentinel -1.0.
C14_LocalMetricsInUnit ==
    (pc = "done" /\ result.exc = "none") =>
        /\ op \in LocalMetrics => InUnit(result.val)
        /\ op = "star_score" =>
              InUnit(result.val.STAR_turn) /\ InUnit(result.val.STAR_cumulative)

\* a cosine of -1 between question and answer: QAR is clamped to 0.0
C14_Witness ==
    /\ pc = "done" /\ op = "question_answer_relevance"
    /\ Truthy(chat_history)
    /\ provider.cos["question_answer"] = -Unit
    /\ result.exc = "none" /\ result.val = 0

-----------------------------------------------------------------------------
(* The availability check of tests/test2_metrics.py, called from threads   *)

\* bool(os.environ.get("GOOGLE_API_KEY", ""))
KeyPresent == IF environ THEN "True" ELSE "False"

At(t, line) == threads[t].at = line
Goto(t, line) == threads' = [threads EXCEPT ![t].at = line]

MetricsIdle ==
    UNCHANGED <<pc, op, question, answer, chat_history, behavioral_phase,
                run_llm_metrics, provider, judge, result, other, last_n_passed,
                session>>

\* a thread calls _check_llm()
EnterCheckLlm(t) ==
    /\ At(t, "idle")
    /\ Goto(t, "if _LLM_AVAILABLE is not None")
    /\ UNCHANGED <<_LLM_AVAILABLE, environ>>
    /\ MetricsIdle

\* if _LLM_AVAILABLE is not None:
TestFlag(t) ==
    /\ At(t, "if _LLM_AVAILABLE is not None")
    /\ IF _LLM_AVAILABLE # "None"
       THEN Goto(t, "return cached")
       ELSE Goto(t, "_LLM_AVAILABLE = bool(...)")
    /\ UNCHANGED <<_LLM_AVAILABLE, environ>>
    /\ MetricsIdle

\* _LLM_AVAILABLE = bool(os.environ.get("GOOGLE_API_KEY", ""))
AssignFlag(t) ==
    /\ At(t, "_LLM_AVAILABLE = bool(...)")
    /\ _LLM_AVAILABLE' = KeyPresent
    /\ Goto(t, "return assigned")
    /\ UNCHANGED environ
    /\ MetricsIdle

\* return _LLM_AVAILABLE (either return statement)
ReturnFlag(t) ==
    /\ At(t, "return cached") \/ At(t, "return assigned")
    /\ threads' = [threads EXCEPT ![t] = [at |-> "idle", returned |-> _LLM_AVAILABLE]]
    /\ UNCHANGED <<_LLM_AVAILABLE, environ>>
    /\ MetricsIdle

CheckLlmNext ==
    \E t \in Threads :
        \/ EnterCheckLlm(t)
        \/ TestFlag(t)
        \/ AssignFlag(t)
        \/ ReturnFlag(t)

SpecCheckLlm == Imported /\ [][CheckLlmNext]_vars

\* the step writes the flag
WritesFlag == \E t \in Threads : At(t, "_LLM_AVAILABLE = bool(...)") /\ ~At(t, "_LLM_AVAILABLE = bool(...)")'

\* all calls that have returned so far returned the same value
SameReturns ==
    \A t, u \in Threads :
        (threads[t].returned # "nothing" /\ threads[u].returned # "nothing")
            => threads[t].returned = threads[u].returned

\* C15: under every interleaving the flag is written at most once, from
\* unset to a boolean, and only read thereafter, and every _check_llm call
\* returns the same value.
C15_WrittenOnceReadMany ==
    [][(WritesFlag => _LLM_AVAILABLE = "None") /\ SameReturns']_vars

-----------------------------------------------------------------------------
(* Two calls of the master aggregator in a row                             *)

\* variant: the call appends the turn it scored to the list it was given
ChatHistoryAfter_TurnAppended(history, q, a) ==
    IF history.isNone THEN history
    ELSE List(Append(history.turns, AssistantTurn(a)))

\* the list passed as chat_history, after calculate_turn_metrics(q, a, ...)
\* is over: the function and the metric functions only read it
ChatHistoryAfter(history, q, a) == history

RepeatAnswers == {<<>>, <<"team", ".", "maybe">>, <<"I built", "python", ".">>}
RepeatHistories ==
    {None, List(<<>>),
     List(<<UserTurn(<<"team">>), AssistantTurn(<<"maybe", "python">>)>>),
     List(<<TurnRecord>>)}
RepeatReplies == {Raises, Answers(<<LBrace, Member("score", 5000), RBrace>>)}

\* the caller repeats the call with the same arguments (the same list
\* object), the provider and the judge behaving as before
CalculateTurnMetricsAgain ==
    /\ pc = "done"
    /\ op = "calculate_turn_metrics"
    /\ LET passed == ChatHistoryAfter(chat_history, question, answer)
       IN  other' = [called |-> TRUE, answer |-> answer, chat_history |-> passed,
                     result |-> calculate_turn_metrics(question, answer, passed,
                                    behavioral_phase, run_llm_metrics, provider, judge)]
    /\ pc' = "repeated"
    /\ UNCHANGED <<last_n_passed, process, session>>
    /\ UNCHANGED <<op, question, answer, chat_history, behavioral_phase,
                   run_llm_metrics, provider, judge, result>>

RepeatNext ==
    \/ CalculateOn(RepeatAnswers, RepeatHistories, RepeatReplies)
    \/ CalculateTurnMetricsAgain

SpecRepeat == Idle /\ [][RepeatNext]_vars

-----------------------------------------------------------------------------
(* Judge responses that open with a JSON object carrying a score           *)

MaxLead == 1
MaxTrail == 2

\* commentary before the object (no brace in it) and after it
LeadTokens == {Word, Number(7 * Unit)}
TrailTokens == {Word, Number(7 * Unit), LBrace, RBrace}
BlockScores == {0, 5000, 7 * Unit}

\* the object {"score": v} or {"score": v, "flags": [...]}
ScoreBlock(v, withFlags) ==
    <<LBrace, Member("score", v)>>
        \o (IF withFlags THEN <<FlagsMember(1)>> ELSE <<>>) \o <<RBrace>>

BlockReplies ==
    {Answers(lead \o ScoreBlock(v, f) \o trail) :
        lead \in SeqsUpTo(LeadTokens, MaxLead), v \in BlockScores, f \in BOOLEAN,
        trail \in SeqsUpTo(TrailTokens, MaxTrail)}

BlockNext ==
    \/ CallFARQ(JudgeAnswers, JudgeHistories, BlockReplies)
    \/ CallRFD(JudgeAnswers, JudgeHistories, BlockReplies)

SpecBlock == Idle /\ [][BlockNext]_vars

\* the score member of the first {...} block of a response: the first
\* numeric member after the first "{" (the block is flat)
FirstBlockScore(raw) ==
    LET i == CHOOSE i \in DOMAIN raw :
                /\ raw[i].t = "num_member"
                /\ \A k \in 1..(i - 1) : raw[k].t # "num_member"
    IN  raw[i].v

\* C17: when the first {...} block of the judge's response is a JSON
\* object with a numeric score, FARQ and the RFD score are that score
\* normalized, whatever commentary stands before or after the block.
C17_FirstBlockScoreReturned ==
    (/\ pc = "done"
     /\ op \in {"factual_accuracy_reasoning_quality", "red_flag_score"}
     /\ result.exc = "none")
        => JudgedScore = Normalize(FirstBlockScore(judge[1].content))

-----------------------------------------------------------------------------
(* The fallback chain of the judge-response parser                         *)

\* the numbers of a response that lie in [0, 10], in text order
NumbersInRange(raw) ==
    SelectSeq(raw, LAMBDA tok : /\ tok.t \in {"num_member", "number"}
                                /\ 0 <= tok.v /\ tok.v <= 10 * Unit)

\* the chain as stated: the score of the JSON object if there is one, else
\* the first number of [0, 10] in the text, else the sentinel
ChainResult(raw) ==
    IF CarriesScore(raw) THEN Normalize(JsonLoads(raw).obj["score"].v)
    ELSE IF NumbersInRange(raw) # <<>> THEN Normalize(Head(NumbersInRange(raw)).v)
    ELSE -Unit

\* C18: _parse_llm_json returns the normalized score of the JSON object;
\* only without such an object it returns the first number of the text
\* that lies in [0, 10], normalized, skipping numbers outside [0, 10]; and
\* -1.0 when there is no such number.
C18_FallbackChain ==
    (/\ pc = "done"
     /\ op = "factual_accuracy_reasoning_quality"
     /\ result.exc = "none"
     /\ ~judge[1].raises)
        => result.val = ChainResult(judge[1].content)

-----------------------------------------------------------------------------
(* The flags that come with an unavailable RFD score                       *)

\* C19: whenever the score of a red_flag_score result is the sentinel
\* -1.0, its flags are the empty list.
C19_SentinelHasNoFlags ==
    (/\ pc = "done"
     /\ op = "red_flag_score"
     /\ result.exc = "none"
     /\ result.val.score = -Unit)
        => result.val.flags = <<>>

-----------------------------------------------------------------------------
(* Direct calls of _history_text                                           *)

MaxTurns == 5
MaxWindow == 5

WindowRecords == {UserTurn(<<"team">>), AssistantTurn(<<"python">>), TurnRecord}
WindowHistories == {None} \cup {List(h) : h \in SeqsUpTo(WindowRecords, MaxTurns)}
WindowSizes == 0..MaxWindow

\* a caller invokes _history_text(history, last_n)
CallHistoryText(histories, sizes) ==
    /\ pc = "idle"
    /\ \E h \in histories, n \in sizes :
            /\ chat_history' = h
            /\ last_n_passed' = n
            /\ result' = LET text == _history_text(h, n)
                         IN  [exc |-> IF text.raised THEN "KeyError" ELSE "none",
                              embeds |-> 0, judges |-> 0, val |-> text.lines]
    /\ op' = "_history_text"
    /\ pc' = "done"
    /\ UNCHANGED <<process, session>>
    /\ UNCHANGED <<question, answer, behavioral_phase, run_llm_metrics,
                   provider, judge, other>>

WindowNext == CallHistoryText(WindowHistories, WindowSizes)

SpecWindow == Idle /\ [][WindowNext]_vars

\* the last min(n, len) records of a list, one role-tagged line each
LastLines(turns, n) ==
    LET k == IF n < Len(turns) THEN n ELSE Len(turns)
    IN  [i \in 1..k |-> <<turns[Len(turns) - k + i].role,
                          turns[Len(turns) - k + i].content>>]

\* C20: _history_text(history, N) renders exactly the last min(N, len)
\* turns of the history, in order, one line per turn, for every N >= 0;
\* never more than N lines.
C20_LastNTurnsRendered ==
    (/\ pc = "done"
     /\ op = "_history_text"
     /\ result.exc = "none")
        => /\ result.val = LastLines(chat_history.turns, last_n_passed)
           /\ Len(result.val) <= last_n_passed

-----------------------------------------------------------------------------
(* Direct calls of the history helpers                                     *)

MaxPriorTurns == 3

\* turns of the three roles, an assistant turn with empty content, a record
\* without role and an assistant record without content
PriorRecords ==
    {UserTurn(<<"team">>), AssistantTurn(<<"python">>), AssistantTurn(<<>>),
     [role |-> "system", content |-> <<"maybe">>],
     [content |-> <<"I built">>], [role |-> "assistant"]}
PriorHistories == {None} \cup {List(h) : h \in SeqsUpTo(PriorRecords, MaxPriorTurns)}

\* a caller invokes _prior_answers or _prior_questions
CallPrior(name, role, histories) ==
    /\ pc = "idle"
    /\ \E h \in histories :
            /\ chat_history' = h
            /\ result' = LET text == ContentsOf(h, role)
                         IN  [exc |-> IF text.raised THEN "KeyError" ELSE "none",
                              embeds |-> 0, judges |-> 0, val |-> text.text]
    /\ op' = name
    /\ pc' = "done"
    /\ UNCHANGED <<last_n_passed, process, session>>
    /\ UNCHANGED <<question, answer, behavioral_phase, run_llm_metrics,
                   provider, judge, other>>

PriorNext ==
    \/ CallPrior("_prior_answers", "assistant", PriorHistories)
    \/ CallPrior("_prior_questions", "user", PriorHistories)
    \/ CallHistoryText(PriorHistories, WindowSizes)

SpecPrior == Idle /\ [][PriorNext]_vars

\* the contents of the turns of a role, in history order
ContentsWithRole(turns, role) ==
    LET at == {i \in DOMAIN turns : "role" \in DOMAIN turns[i] /\ turns[i].role = role}
        Nth(k) == CHOOSE i \in at : Cardinality({j \in at : j <= i}) = k
    IN  [k \in 1..Cardinality(at) |-> turns[Nth(k)].content]

\* texts put one after the other with a single space between two of them
RECURSIVE SpaceJoined(_)
SpaceJoined(texts) ==
    IF Len(texts) = 0 THEN <<>>
    ELSE IF Len(texts) = 1 THEN texts[1]
    ELSE SpaceJoined(SubSeq(texts, 1, Len(texts) - 1)) \o <<" ">> \o texts[Len(texts)]

\* C21: _prior_answers is the contents of exactly the assistant turns, in
\* order, joined by single spaces, _prior_questions the same for the user
\* turns; for an empty or absent history the two and _history_text return
\* the empty text.
C21_PriorTexts ==
    (pc = "done" /\ result.exc = "none") =>
        /\ op = "_prior_answers" =>
              result.val = SpaceJoined(ContentsWithRole(chat_history.turns, "assistant"))
        /\ op = "_prior_questions" =>
              result.val = SpaceJoined(ContentsWithRole(chat_history.turns, "user"))
        /\ (/\ op \in {"_prior_answers", "_prior_questions", "_history_text"}
            /\ chat_history.turns = <<>>) => result.val = <<>>

C21_Witness ==
    /\ pc = "done"
    /\ op = "_prior_answers"
    /\ \E i \in DOMAIN chat_history.turns :
          HasRole(chat_history.turns[i], "system")
    /\ result.exc = "none"
    /\ result.val = <<"python", " ", "python">>

-----------------------------------------------------------------------------
(* The history factor of confidence_clarity_score                          *)

\* hedge phrases of a text per non-empty sentence of it (at least one)
HedgesPerSentence(text) ==
    Rat(Count(_HEDGE_RE, text),
        IF SentenceCount(text) > 1 THEN SentenceCount(text) ELSE 1)

\* the score without history times (1 - 0.15 x rate), clamped to [0, 1]
HistoryFactored(base, rate) ==
    Round4(RMin(RMax(RMul(Rat(base, Unit), RSub(One, RMul(Rat(15, 100), rate))),
                     Zero), One))

\* C22: with a non-empty history confidence_clarity_score is the score
\* without history times (1 - 0.15 x prior_hedge_rate), clamped to [0, 1],
\* prior_hedge_rate being the hedge phrases of the prior answers per
\* non-empty sentence of the prior answers (up to the last decimal place).
C22_PriorHedgeRatePerSentence ==
    (/\ pc = "done"
     /\ op = "confidence_clarity_score"
     /\ Truthy(chat_history)
     /\ result.exc = "none")
        => Abs(result.val
               - HistoryFactored(
                    confidence_clarity_score(question, answer, None, Start).val,
                    HedgesPerSentence(_prior_answers(chat_history).text))) <= 1

-----------------------------------------------------------------------------
(* The metrics node of the interview graph                                 *)

MaxStoredTurns == 2

\* session_store.get(session_id).get("chat_history"): the list that was
\* stored last
StoredChatHistory(store) == List(store)

\* session_store.update(session_id, {..., "chat_history": chat_history})
UpdatedStore(store, history) == history.turns

\* True if re.findall('behavior', current_phase.lower()) else False
PhaseNames == {"technical", "Behavioral round"}
IsBehavioral(phase) ==
    CASE phase = "technical" -> FALSE
      [] phase = "Behavioral round" -> TRUE

\* the record of the turn; uuid4() is an identifier no other record has
current_turn(id, q, a, results, phase, topic) ==
    [chat_id |-> id, question |-> q, response |-> a, metrics |-> results,
     phase_name |-> phase, topic_id |-> topic]

NodeAnswers == {<<"team", ".">>, <<"I built", "python", ".">>}
NodeProviders(a) == {Provider(0, 2000, 2000, a), Provider(1, Unit, Unit, a)}

\* metrics_node(system_state): the stored history is read and handed to
\* calculate_turn_metrics (run_llm_metrics has its default, True); when the
\* call returns, the record of the turn is appended and the list is stored;
\* an exception of the call ends the node before the append
MetricsNode ==
    /\ pc \in {"idle", "scored", "failed"}
    /\ Len(session_store) < MaxStoredTurns
    /\ \E a \in NodeAnswers, phase \in PhaseNames :
        \E p \in NodeProviders(a), j \in [1..2 -> RepeatReplies] :
            LET history == StoredChatHistory(session_store)
                results == calculate_turn_metrics(<<"team">>, a, history,
                                                  IsBehavioral(phase), TRUE, p, j)
                turn == current_turn(Len(session_store) + 1, <<"team">>, a,
                                     results.val, phase, 0)
            IN  /\ answer' = a
                /\ chat_history' = history
                /\ behavioral_phase' = IsBehavioral(phase)
                /\ provider' = p
                /\ judge' = j
                /\ result' = results
                /\ IF results.exc = "none"
                   THEN /\ session_store' =
                              UpdatedStore(session_store,
                                           List(Append(history.turns, turn)))
                        /\ pc' = "scored"
                   ELSE /\ session_store' = session_store
                        /\ pc' = "failed"
    /\ op' = "metrics_node"
    /\ question' = <<"team">>
    /\ run_llm_metrics' = TRUE
    /\ UNCHANGED <<other, last_n_passed, process, interview, topic_call>>

NodeNext == MetricsNode

SpecNode == Idle /\ [][NodeNext]_vars

\* the step is a run of metrics_node
NodeRan == op' = "metrics_node" /\ pc' \in {"scored", "failed"}

\* C23: in every run of metrics_node (the embedding provider answering)
\* the history handed to calculate_turn_metrics is the history stored
\* before the turn, without a record of the current turn, and the run
\* appends the record of the turn, holding the metrics computed, to the
\* stored history exactly once.
C23_HistoryBeforeTurnThenAppend ==
    [][(NodeRan /\ result'.exc # "EmbeddingError") =>
        /\ chat_history' = List(session_store)
        /\ \A i \in DOMAIN chat_history'.turns :
              chat_history'.turns[i].chat_id # Len(session_store) + 1
        /\ Len(session_store') = Len(session_store) + 1
        /\ SubSeq(session_store', 1, Len(session_store)) = session_store
        /\ session_store'[Len(session_store')].response = answer'
        /\ session_store'[Len(session_store')].metrics = result'.val]_vars

-----------------------------------------------------------------------------
(* How often one call of the master aggregator invokes the judge           *)

\* the histories of the repeated calls, and one of five records whose first
\* record (without role and content) lies outside the window of the last 4
LongHistory ==
    List(<<TurnRecord, UserTurn(<<"team">>), AssistantTurn(<<"python">>),
           UserTurn(<<"team">>), AssistantTurn(<<"maybe">>)>>)
CountHistories == RepeatHistories \cup {LongHistory}

CountNext == CalculateOn(RepeatAnswers, CountHistories, RepeatReplies)

SpecCount == Idle /\ [][CountNext]_vars

\* C24 as claimed: a call invokes the judge exactly twice when
\* run_llm_metrics is true and never when it is false.
C24_TwiceOrNever ==
    TurnCalled => result.judges = (IF run_llm_metrics THEN 2 ELSE 0)

\* C24 amended: a call that returns a mapping has invoked the judge exactly
\* twice when run_llm_metrics is true; a call that ends with an exception
\* has invoked it at most once; with run_llm_metrics false it is never
\* invoked.
C24_TwiceWhenReturned ==
    TurnCalled =>
        /\ ~run_llm_metrics => result.judges = 0
        /\ (run_llm_metrics /\ result.exc = "none") => result.judges = 2
        /\ (run_llm_metrics /\ result.exc # "none") => result.judges <= 1

C24_Witness ==
    /\ TurnCalled
    /\ run_llm_metrics /\ behavioral_phase /\ Truthy(chat_history)
    /\ judge[1].raises
    /\ result.exc = "none" /\ result.judges = 2

-----------------------------------------------------------------------------
(* The cumulative STAR score against the score of the turn                 *)

MaxCumLen == 3

CumAnswers == SeqsUpTo(StarLexemes, MaxCumLen)

\* the histories of the STAR calls, the empty list, a history of another
\* role only, prior answers that show a result, and an assistant record
\* without content
CumHistories ==
    StarHistories
        \cup {List(<<>>),
              List(<<[role |-> "system", content |-> <<"result">>]>>),
              List(<<AssistantTurn(<<"result">>), AssistantTurn(<<"I built">>)>>),
              List(<<[role |-> "assistant"]>>)}

CumNext == CallSTAR(CumAnswers, CumHistories)

SpecCum == Idle /\ [][CumNext]_vars

HasAssistantTurn(history) ==
    \E i \in DOMAIN history.turns : HasRole(history.turns[i], "assistant")

\* C25: STAR_cumulative is never below STAR_turn, and the two are equal
\* when the history is empty or holds no assistant turn.
C25_CumulativeAtLeastTurn ==
    StarCalled =>
        /\ result.val.STAR_cumulative >= result.val.STAR_turn
        /\ ~HasAssistantTurn(chat_history) =>
              result.val.STAR_cumulative = result.val.STAR_turn

\* an answer that shows an action after prior answers that show a
\* situation and a task: 0.25 for the turn, 0.75 cumulative
C25_Witness ==
    /\ StarCalled
    /\ HasAssistantTurn(chat_history)
    /\ ComponentsIn(answer) = {"action"}
    /\ result.val.STAR_turn = 2500
    /\ result.val.STAR_cumulative = 7500

-----------------------------------------------------------------------------
(* One parsing contract for the two judged metrics                         *)

\* C26: for every judge response the score red_flag_score reports is the
\* value _parse_llm_json gives for the same text.
C26_SameParsingContract ==
    (/\ pc = "done"
     /\ op = "red_flag_score"
     /\ result.exc = "none"
     /\ ~judge[1].raises)
        => result.val.score = _parse_llm_json(judge[1].content, "score")

-----------------------------------------------------------------------------
(* The history factor of answer_completeness_score                         *)

\* C27: whatever cosine of [-1, 1] the provider gives, the score of
\* answer_completeness_score with a history is never greater than the
\* score of the same question and answer without history.
C27_HistoryOnlyPenalises ==
    (/\ pc = "done"
     /\ op = "answer_completeness_score"
     /\ result.exc = "none")
        => result.val <= answer_completeness_score(question, answer, None,
                                                   provider, Start).val

-----------------------------------------------------------------------------
(* The master aggregator, statement by statement                           *)

\* variant: the judged metrics come right after CCS, before STAR
NextStatement_JudgedBeforeStar(at, behavioral, run_llm) ==
    CASE at = "begin" -> "QAR"
      [] at = "QAR" -> "TDS"
      [] at = "TDS" -> "ACS"
      [] at = "ACS" -> "SS"
      [] at = "SS" -> "CCS"
      [] at = "CCS" -> IF run_llm THEN "FARQ" ELSE IF behavioral THEN "STAR" ELSE "done"
      [] at = "FARQ" -> "RFD"
      [] at = "RFD" -> IF behavioral THEN "STAR" ELSE "done"
      [] at = "STAR" -> "done"

\* the statement that follows a statement of calculate_turn_metrics; each
\* is named by the metric it computes, "done" is `return m`
NextStatement(at, behavioral, run_llm) ==
    CASE at = "begin" -> "QAR"
      [] at = "QAR" -> "TDS"
      [] at = "TDS" -> "ACS"
      [] at = "ACS" -> "SS"
      [] at = "SS" -> "CCS"
      [] at = "CCS" -> IF behavioral THEN "STAR" ELSE IF run_llm THEN "FARQ" ELSE "done"
      [] at = "STAR" -> IF run_llm THEN "FARQ" ELSE "done"
      [] at = "FARQ" -> "RFD"
      [] at = "RFD" -> "done"

\* the caller enters calculate_turn_metrics: `m: Metrics = {}`
EnterTurn ==
    /\ pc = "idle"
    /\ \E a \in RepeatAnswers, h \in RepeatHistories, b \in BOOLEAN, l \in BOOLEAN :
        \E p \in TurnProviders(a), j \in IF l THEN [1..2 -> RepeatReplies] ELSE {<<>>} :
            /\ answer' = a
            /\ chat_history' = h
            /\ behavioral_phase' = b
            /\ run_llm_metrics' = l
            /\ provider' = p
            /\ judge' = j
            /\ pc' = NextStatement("begin", b, l)
    /\ op' = "calculate_turn_metrics"
    /\ question' = <<"team">>
    /\ result' = [exc |-> "none", embeds |-> 0, judges |-> 0, val |-> <<>>]
    /\ other' = NoCall
    /\ UNCHANGED <<last_n_passed, process, session>>

\* where the call is: the exception state and the calls made so far
Progress == [exc |-> result.exc, embeds |-> result.embeds, judges |-> result.judges]

\* m[k] = v for every key k of the mapping `entries`
Assigned(m, entries) ==
    [k \in DOMAIN m \cup DOMAIN entries |->
        IF k \in DOMAIN entries THEN entries[k] ELSE m[k]]

\* the statement at `at` has run the metric function with outcome r: its
\* values are stored in m, or its exception ends the call
Executed(at, r, entries) ==
    /\ pc = at
    /\ op = "calculate_turn_metrics"
    /\ IF r.st.exc = "none"
       THEN /\ result' = [exc |-> "none", embeds |-> r.st.embeds,
                          judges |-> r.st.judges,
                          val |-> Assigned(result.val, entries)]
            /\ pc' = NextStatement(at, behavioral_phase, run_llm_metrics)
       ELSE /\ result' = [exc |-> r.st.exc, embeds |-> r.st.embeds,
                          judges |-> r.st.judges, val |-> <<>>]
            /\ pc' = "done"
    /\ UNCHANGED <<op, question, answer, chat_history, behavioral_phase,
                   run_llm_metrics, provider, judge, other>>
    /\ UNCHANGED <<last_n_passed, process, session>>

AssignQAR ==
    /\ pc = "QAR"
    /\ \E r \in {question_answer_relevance(question, answer, chat_history, provider, Progress)} :
         Executed("QAR", r, [QAR |-> r.val])

AssignTDS ==
    /\ pc = "TDS"
    /\ \E r \in {topical_depth_score(question, answer, chat_history, provider, Progress)} :
         Executed("TDS", r, [TDS |-> r.val])

AssignACS ==
    /\ pc = "ACS"
    /\ \E r \in {answer_completeness_score(question, answer, chat_history, provider, Progress)} :
         Executed("ACS", r, [ACS |-> r.val])

AssignSS ==
    /\ pc = "SS"
    /\ \E r \in {specificity_score(question, answer, chat_history, Progress)} :
         Executed("SS", r, [SS |-> r.val])

AssignCCS ==
    /\ pc = "CCS"
    /\ \E r \in {confidence_clarity_score(question, answer, chat_history, Progress)} :
         Executed("CCS", r, [CCS |-> r.val])

AssignSTAR ==
    /\ pc = "STAR"
    /\ \E r \in {star_score(question, answer, chat_history, Progress)} :
         Executed("STAR", r,
                             [STAR_turn |-> r.val.STAR_turn,
                              STAR_cumulative |-> r.val.STAR_cumulative,
                              STAR_components |-> r.val.components_turn])

AssignFARQ ==
    /\ pc = "FARQ"
    /\ \E r \in {factual_accuracy_reasoning_quality(question, answer, chat_history, judge, Progress)} :
         Executed("FARQ", r, [FARQ |-> r.val])

AssignRFD ==
    /\ pc = "RFD"
    /\ \E r \in {red_flag_score(question, answer, chat_history, judge, Progress)} :
         Executed("RFD", r,
                             [RFD |-> r.val.score, RFD_flags |-> r.val.flags])

StatementNext ==
    \/ EnterTurn
    \/ AssignQAR
    \/ AssignTDS
    \/ AssignACS
    \/ AssignSS
    \/ AssignCCS
    \/ AssignSTAR
    \/ AssignFARQ
    \/ AssignRFD

SpecStatements == Idle /\ [][StatementNext]_vars

\* C28: whenever the judge is invoked during calculate_turn_metrics, QAR,
\* TDS, ACS, SS and CCS, and the STAR values when behavioral_phase is set,
\* have been computed; when the embedding provider fails the judge is not
\* invoked in that call.
C28_LocalMetricsBeforeJudge ==
    [][/\ (op = "calculate_turn_metrics" /\ result'.judges > result.judges) =>
            /\ BaseKeys \subseteq DOMAIN result.val
            /\ behavioral_phase => StarKeys \subseteq DOMAIN result.val
       /\ (op = "calculate_turn_metrics" /\ result'.exc = "EmbeddingError") =>
            result'.judges = 0]_vars

\* the first judge call has been made in a behavioural turn, after the
\* eight local values were stored
C28_Witness ==
    /\ pc = "RFD"
    /\ op = "calculate_turn_metrics"
    /\ behavioral_phase /\ run_llm_metrics
    /\ result.judges = 1
    /\ BaseKeys \cup StarKeys \subseteq DOMAIN result.val

-----------------------------------------------------------------------------
(* The interview session: session store, submit_answer, orchestrator graph *)

MaxMaxTurns == 2
MaxAnswered == 2

\* the default recursion_limit of a compiled graph (graph.compile() sets none)
recursion_limit == 25

\* d.get(key, default)
DictGet(d, key, default) == IF key \in DOMAIN d THEN d[key] ELSE default

\* d.get(key) where a list is expected: None when the key is missing
DictGetList(d, key) == IF key \in DOMAIN d THEN List(d[key]) ELSE None

\* RedisSessionStore.get: the decoded value, or a default for a missing key
session_get(r) ==
    IF ~r.stored
    THEN [user |-> "None", user_summary |-> "None", chat_history |-> <<>>]
    ELSE r.value

\* RedisSessionStore.set: the JSON text of data replaces the value
session_set(data) == [stored |-> TRUE, value |-> data]

\* RedisSessionStore.update: get, dict.update(kwargs), set
session_update(r, kwargs) == session_set(Assigned(session_get(r), kwargs))

\* message objects and their dict form
AIMessage(content) == [class |-> "AIMessage", content |-> content]
HumanMessage(content) == [class |-> "HumanMessage", content |-> content]

messages_to_dict(messages) ==
    [i \in DOMAIN messages |->
        [type |-> IF messages[i].class = "AIMessage" THEN "ai" ELSE "human",
         data |-> messages[i].content]]

messages_from_dict(dicts) ==
    [i \in DOMAIN dicts |->
        IF dicts[i].type = "ai" THEN AIMessage(dicts[i].data)
                                ELSE HumanMessage(dicts[i].data)]

\* _hydrate_messages(raw): the messages of a list, [] for anything else
_hydrate_messages(raw) == IF raw.isNone THEN <<>> ELSE messages_from_dict(raw.turns)

\* start_new_interview: the initial state saved under the key
initial_state(session_id, max_turns) ==
    [session_id |-> session_id, current_user |-> "user_data",
     current_jd |-> "jd_data", user_summary |-> "summary",
     recent_turns |-> <<>>, turn_count |-> 0, max_turns |-> max_turns,
     store_count |-> 1, interview_phase |-> "introduction",
     next_question |-> "None", chat_history |-> <<>>, final_report |-> "None"]

\* the question the LLM produces, or the fallback when llm.invoke raises
generated_question(llm_up) ==
    IF llm_up THEN "question"
              ELSE "Could you tell me more about your background?"

\* question_generator_node(state): the update it returns and the store after it
question_generator_node(state, llm_up, r) ==
    LET session_id == DictGet(state, "session_id", "None")
        phase == DictGet(state, "interview_phase", "introduction")
        history == DictGet(state, "chat_history", <<>>)
        updated_history == Append(history, AIMessage(generated_question(llm_up)))
    IN  [result |-> [next_question |-> generated_question(llm_up),
                     chat_history |-> updated_history],
         redis |-> IF session_id \notin {"None", ""}
                   THEN session_update(r,
                            [next_question |-> generated_question(llm_up),
                             chat_history |-> messages_to_dict(updated_history),
                             interview_phase |-> phase])
                   ELSE r]

\* should_continue(state): END or the name of the node to run next
should_continue(state) ==
    IF DictGet(state, "turn_count", 0) >= DictGet(state, "max_turns", 1)
    THEN "END" ELSE "question_generator"

\* the metric functions take no part in the session actions
MetricsUntouched ==
    UNCHANGED <<pc, question, answer, chat_history, behavioral_phase,
                run_llm_metrics, provider, judge, result, other, last_n_passed,
                process, session_store, topic_call>>

\* start_new_interview(session_id, ..., max_turns)
StartNewInterview ==
    /\ ~redis.stored
    /\ \E max_turns \in 1..MaxMaxTurns :
        redis' = session_set(initial_state("s1", max_turns))
    /\ op' = "start_new_interview"
    /\ UNCHANGED <<chat, returned, graph>>
    /\ MetricsUntouched

Role(role, content) == [role |-> role, content |-> content]

\* the user messages of the chat list
Answered(messages) ==
    Cardinality({i \in DOMAIN messages : messages[i].role = "user"})

\* recent_turns after the answer is filed
Filed(recent_turns, text) ==
    IF recent_turns # <<>> /\ recent_turns[Len(recent_turns)].answer = ""
    THEN [recent_turns EXCEPT ![Len(recent_turns)].answer = text]
    ELSE Append(recent_turns, [question |-> "", answer |-> text, metrics |-> "{}"])

\* what submit_answer returns: the reply it appended and the two counts
Reply(content, state) ==
    [called |-> TRUE, reply |-> content,
     turn_count |-> DictGet(state, "turn_count", 0),
     store_count |-> DictGet(state, "store_count", 0)]

\* the store after the answer is saved (the first update of submit_answer)
Saved(r, state, text) ==
    session_update(r,
        [recent_turns |-> Filed(DictGet(state, "recent_turns", <<>>), text),
         chat_history |->
            messages_to_dict(Append(_hydrate_messages(DictGetList(state, "chat_history")),
                                    HumanMessage(text))),
         store_count |-> DictGet(state, "store_count", 0) + 1])

\* the state re-read from the store, its chat_history as message objects
Hydrated(state) ==
    Assigned(state,
             [chat_history |-> _hydrate_messages(DictGetList(state, "chat_history"))])

\* the store after the question is saved (the second update of submit_answer)
Asked(r, state, update) ==
    session_update(r,
        [next_question |-> DictGet(update, "next_question", ""),
         chat_history |->
            messages_to_dict(DictGet(update, "chat_history", state["chat_history"])),
         recent_turns |-> DictGet(update, "recent_turns",
                                  DictGet(state, "recent_turns", <<>>)),
         turn_count |-> DictGet(update, "turn_count", DictGet(state, "turn_count", 0)),
         max_turns |-> DictGet(update, "max_turns", DictGet(state, "max_turns", 1)),
         interview_phase |-> DictGet(state, "interview_phase", "introduction"),
         store_count |-> DictGet(state, "store_count", 0) + 1])

\* submit_answer(session_id, answer, chat)
SubmitAnswer ==
    /\ Answered(chat) < MaxAnswered
    /\ \E session_id \in {"", "s1"}, text \in {"", "I did."}, llm_up \in BOOLEAN :
       \E state \in {session_get(redis)} :
        IF session_id = "" \/ DOMAIN state = {}
        THEN /\ returned' = [called |-> TRUE, reply |-> "None",
                             turn_count |-> 0, store_count |-> 0]
             /\ UNCHANGED <<redis, chat>>
        ELSE \E saved \in {Saved(redis, state, text)} :
             IF DictGet(state, "turn_count", 0) >= DictGet(state, "max_turns", 1)
             THEN /\ redis' = saved
                  /\ chat' = chat \o <<Role("user", text),
                                       Role("assistant", "Interview complete.")>>
                  /\ returned' = Reply("Interview complete.", session_get(saved))
             ELSE \E fresh \in {Hydrated(session_get(saved))} :
                  \E node \in {question_generator_node(fresh, llm_up, saved)} :
                  \E asked \in {Asked(node.redis, fresh, node.result)} :
                    /\ redis' = asked
                    /\ chat' = chat \o <<Role("user", text),
                                         Role("assistant",
                                              DictGet(node.result, "next_question", ""))>>
                    /\ returned' = Reply(DictGet(node.result, "next_question", ""),
                                         session_get(asked))
    /\ op' = "submit_answer"
    /\ UNCHANGED graph
    /\ MetricsUntouched

\* the keys of GlobalState
GlobalState ==
    {"session_id", "current_user", "current_jd", "user_summary", "recent_turns",
     "turn_count", "max_turns", "store_count", "interview_phase",
     "next_question", "final_report"}

\* app.invoke(input): the graph starts on the state of the session; the
\* nodes see the keys of GlobalState, and the key user when the input has it
InvokeGraph ==
    /\ graph.at = "idle"
    /\ redis.stored
    /\ \E with_user \in BOOLEAN :
        LET input == session_get(redis)
            kept == [k \in DOMAIN input \cap GlobalState |-> input[k]]
        IN  graph' = [at |-> "user_summarizer", steps |-> 0,
                      state |-> IF with_user
                                THEN Assigned(kept, [user |-> "profile"])
                                ELSE kept]
    /\ op' = "app.invoke"
    /\ UNCHANGED <<redis, chat, returned>>
    /\ MetricsUntouched

\* the node user_summarizer: summarizer_node reads state["user"]
RunSummarizer ==
    /\ graph.at = "user_summarizer"
    /\ graph' = [graph EXCEPT
                   !.at = IF "user" \in DOMAIN graph.state
                          THEN "question_generator" ELSE "KeyError",
                   !.steps = @ + 1]
    /\ op' = "summarizer_node"
    /\ UNCHANGED <<redis, chat, returned>>
    /\ MetricsUntouched

\* the node question_generator, then the conditional edge should_continue;
\* the run is abandoned when the step limit is reached
RunQuestionGenerator ==
    /\ graph.at = "question_generator"
    /\ IF graph.steps >= recursion_limit
       THEN /\ graph' = [graph EXCEPT !.at = "GraphRecursionError"]
            /\ UNCHANGED redis
       ELSE \E llm_up \in BOOLEAN :
            \E node \in {question_generator_node(graph.state, llm_up, redis)} :
            \E state \in {Assigned(graph.state,
                                   [k \in DOMAIN node.result \cap GlobalState |->
                                        node.result[k]])} :
                /\ graph' = [at |-> should_continue(state), state |-> state,
                             steps |-> graph.steps + 1]
                /\ redis' = node.redis
    /\ op' = "question_generator_node"
    /\ UNCHANGED <<chat, returned>>
    /\ MetricsUntouched

GraphNext == InvokeGraph \/ RunSummarizer \/ RunQuestionGenerator

InterviewNext == StartNewInterview \/ SubmitAnswer \/ GraphNext

SpecInterview == Idle /\ [][InterviewNext]_vars

\* the session is started, the candidate keeps answering (up to MaxAnswered
\* answers) and the graph, once invoked, runs its nodes
SpecInterviewFair ==
    /\ SpecInterview
    /\ WF_vars(StartNewInterview)
    /\ WF_vars(SubmitAnswer)
    /\ WF_vars(GraphNext)

\* start_new_interview has saved the state of a session whose max_turns
\* questions can all be answered within MaxAnswered answers
Started ==
    /\ redis.stored
    /\ "session_id" \in DOMAIN redis.value
    /\ redis.value["max_turns"] < MaxAnswered

\* submit_answer has replied "Interview complete."
Completed == returned.called /\ returned.reply = "Interview complete."

\* should_continue has returned END
Ended == graph.at = "END"

\* in every reachable state the stored turn_count is 0, no call has replied
\* "Interview complete." and the graph has not reached END
TurnCountNeverAdvances ==
    /\ redis.stored => DictGet(redis.value, "turn_count", 0) = 0
    /\ ~Completed
    /\ ~Ended

\* C29: an interview session started with max_turns >= 1 ends: eventually
\* submit_answer replies "Interview complete." and should_continue returns
\* END instead of looping back to question_generator.
C29_InterviewEnds == Started ~> (Completed /\ <>Ended)

-----------------------------------------------------------------------------
(* The next independent topic of the plan                                  *)

MaxPhases == 2
MaxTopics == 2

\* a local variable of the function: not yet assigned, None, or an index
Unbound == [kind |-> "unbound"]
NoneIndex == [kind |-> "None"]
Index(n) == [kind |-> "int", val |-> n]

\* `phase.name is prev_phase`: different texts are different objects; equal
\* texts are one object or two, as the interpreter and the caller have it
IsSameObject(name, prev_phase, same_object) == name = prev_phase /\ same_object

\* the position (from 1) of the first topic with the id, 0 when there is none
RECURSIVE FirstTopic(_, _, _)
FirstTopic(topics, prev_topic_id, k) ==
    IF k > Len(topics) THEN 0
    ELSE IF topics[k] = prev_topic_id THEN k
    ELSE FirstTopic(topics, prev_topic_id, k + 1)

\* the inner loop over the topics of phase j (counted from 0)
TopicLoop(topics, prev_topic_id, j, locals) ==
    LET k == FirstTopic(topics, prev_topic_id, 1)
    IN  IF k = 0 THEN locals
        ELSE IF k >= Len(topics)
             THEN [locals EXCEPT !.new_topic_idx = NoneIndex]
             ELSE [new_phase_idx |-> Index(j), new_topic_idx |-> Index(k),
                   exc |-> "none"]

\* `if new_topic_idx is None:` after the inner loop
AfterTopicLoop(j, locals) ==
    IF locals.new_topic_idx = Unbound
    THEN [locals EXCEPT !.exc = "UnboundLocalError"]
    ELSE IF locals.new_topic_idx = NoneIndex
    THEN [new_phase_idx |-> Index(j + 1), new_topic_idx |-> Index(0), exc |-> "none"]
    ELSE locals

\* the outer loop, from phase number j + 1 of the plan on
RECURSIVE PhaseLoop(_, _, _, _, _, _)
PhaseLoop(plan, prev_phase, prev_topic_id, same_object, j, locals) ==
    IF j >= Len(plan) \/ locals.exc # "none" THEN locals
    ELSE IF IsSameObject(plan[j + 1].name, prev_phase, same_object)
    THEN PhaseLoop(plan, prev_phase, prev_topic_id, same_object, j + 1,
                   AfterTopicLoop(j, TopicLoop(plan[j + 1].topics, prev_topic_id,
                                               j, locals)))
    ELSE PhaseLoop(plan, prev_phase, prev_topic_id, same_object, j + 1, locals)

\* get_independent_topic(plan, prev_phase, prev_topic_id): the pair returned,
\* or the exception raised
get_independent_topic(plan, prev_phase, prev_topic_id, same_object) ==
    LET locals == PhaseLoop(plan, prev_phase, prev_topic_id, same_object, 0,
                            [new_phase_idx |-> Unbound, new_topic_idx |-> Unbound,
                             exc |-> "none"])
    IN  IF locals.exc # "none" THEN [exc |-> locals.exc, val |-> <<>>]
        ELSE IF locals.new_phase_idx = Unbound \/ locals.new_topic_idx = Unbound
        THEN [exc |-> "UnboundLocalError", val |-> <<>>]
        ELSE [exc |-> "none",
              val |-> <<locals.new_phase_idx.val, locals.new_topic_idx.val>>]

\* the plans: phases of distinct names, topics of distinct ids in a phase
TopicIds == {"t1", "t2"}

TopicLists ==
    {ids \in SeqsUpTo(TopicIds, MaxTopics) :
        \A a, b \in DOMAIN ids : a # b => ids[a] # ids[b]}

PhaseName(j) == IF j = 1 THEN "technical" ELSE "behavioral"

Plans ==
    UNION {[1..n -> TopicLists] : n \in 1..MaxPhases}

Plan(lists) == [j \in DOMAIN lists |-> [name |-> PhaseName(j), topics |-> lists[j]]]

\* a caller asks for the topic after (prev_phase, prev_topic_id)
CallGetIndependentTopic ==
    /\ pc = "idle"
    /\ \E lists \in Plans, prev_phase \in {"technical", "behavioral", "closing"},
          prev_topic_id \in TopicIds \cup {"t9"}, same_object \in BOOLEAN :
        /\ topic_call' = [called |-> TRUE, plan |-> Plan(lists),
                          prev_phase |-> prev_phase,
                          prev_topic_id |-> prev_topic_id,
                          same_object |-> same_object]
        /\ result' = get_independent_topic(Plan(lists), prev_phase, prev_topic_id,
                                           same_object)
    /\ pc' = "done"
    /\ op' = "get_independent_topic"
    /\ UNCHANGED <<question, answer, chat_history, behavioral_phase,
                   run_llm_metrics, provider, judge, other, last_n_passed,
                   process, session_store, interview>>

TopicNext == CallGetIndependentTopic

SpecTopic == Idle /\ [][TopicNext]_vars

TopicCalled == pc = "done" /\ op = "get_independent_topic"

\* the phase (from 1) and topic (from 1) that the arguments name, if any
NamedPhases ==
    {j \in DOMAIN topic_call.plan : topic_call.plan[j].name = topic_call.prev_phase}

NamesATopic ==
    \E j \in NamedPhases :
        FirstTopic(topic_call.plan[j].topics, topic_call.prev_topic_id, 1) > 0

\* the indices (from 0) of the topic after topic k of phase j, both from 1
Following(plan, j, k) ==
    IF k < Len(plan[j].topics) THEN <<j - 1, k>> ELSE <<j, 0>>

\* (p, t) are indices of a phase of the plan and of a topic of that phase
ValidIndices(plan, p, t) ==
    /\ p + 1 \in DOMAIN plan
    /\ t + 1 \in DOMAIN plan[p + 1].topics

\* C30: for every plan and every (prev_phase, prev_topic_id) naming a topic
\* of it, get_independent_topic returns without error the indices of the
\* topic that follows it in plan order; and whenever it returns, the pair
\* is a valid phase index and a valid topic index of that phase.
C30_NextTopicOfThePlan ==
    TopicCalled =>
        /\ NamesATopic =>
            /\ result.exc = "none"
            /\ \A j \in NamedPhases :
                 result.val =
                    Following(topic_call.plan, j,
                              FirstTopic(topic_call.plan[j].topics,
                                         topic_call.prev_topic_id, 1))
        /\ result.exc = "none" =>
             ValidIndices(topic_call.plan, result.val[1], result.val[2])

====
